---- MODULE Spec2Model ----
(***************************************************************************)
(* Gasoline blending optimiser (src/app.py): the property transform layer, *)
(* the model builder, the solve orchestrator (run_optimization) and the    *)
(* infeasibility diagnosis engine (analyze_grade_infeasibility).           *)
(*                                                                         *)
(* Numbers.  Python floats are modelled in fixed point: a real value v is  *)
(* the integer v * Scale; float('inf') is the integer Inf.  Volumes are    *)
(* whole barrels.  The external LP solver is modelled by its contract:     *)
(* status Optimal iff the constraint set has a solution, and then some     *)
(* profit-maximal solution is returned; solutions range over whole-barrel  *)
(* blends.                                                                 *)
(***************************************************************************)
EXTENDS Integers, Sequences, FiniteSets, TLC

\* ------------------------------------------------------------------ numbers

\* Fixed-point resolution: one unit is 0.00001.
Scale == 10^5

\* float('inf')
Inf == 2147483647

\* floor(a * b / Scale) for 0 <= a, b; b is split in base 1000 so that no
\* intermediate product leaves the 32-bit range.
MulS(a, b) == ((a * (b \div 1000)) + ((a * (b % 1000)) \div 1000)) \div 100

\* floor(a * Scale / b) by long division, one decimal digit of Scale a step.
RECURSIVE DivDigits(_, _, _, _)
DivDigits(q, r, b, n) ==
    IF n = 0 THEN q
    ELSE DivDigits(q * 10 + ((r * 10) \div b), (r * 10) % b, b, n - 1)

DivS(a, b) == DivDigits(a \div b, a % b, b, 5)

\* e^k for k = 0..7 (math.exp at the integers), fixed point.
ExpInt == <<100000, 271828, 738906, 2008554, 5459815, 14841316, 40342879, 109663316>>

\* Taylor series of e^r for 0 <= r < 1: term is r^(n-1)/(n-1)!.
RECURSIVE ExpSeries(_, _, _, _)
ExpSeries(r, term, sum, n) ==
    IF term = 0 \/ n > 12 THEN sum
    ELSE LET t == MulS(term, r) \div n
         IN  ExpSeries(r, t, sum + t, n + 1)

\* math.exp(y) for y >= 0.
FExp(y) ==
    LET k == y \div Scale
        e == ExpSeries(y % Scale, Scale, Scale, 1)
        c == ExpInt[k + 1]
    IN  e * (c \div Scale) + MulS(e, c % Scale)

\* Series of atanh(z) = z + z^3/3 + z^5/5 + ...
RECURSIVE AtanhSeries(_, _, _, _)
AtanhSeries(z2, term, sum, n) ==
    IF term = 0 \/ n >= 12 THEN sum
    ELSE AtanhSeries(z2, MulS(term, z2), sum + (term \div (2 * n + 1)), n + 1)

RECURSIVE LnExponent(_, _)
LnExponent(v, k) == IF k < 7 /\ ExpInt[k + 2] <= v THEN LnExponent(v, k + 1) ELSE k

\* math.log(v) for v >= 1: v = e^k * m with 1 <= m < e, ln m = 2 atanh((m-1)/(m+1)).
FLn(v) ==
    LET k == LnExponent(v, 0)
        m == DivS(v, ExpInt[k + 1])
        z == DivS(m - Scale, m + Scale)
    IN  k * Scale + 2 * AtanhSeries(MulS(z, z), z, 0, 0)

\* ------------------------------------------------- property transform layer

\* The forward branch point (display units) and the inverse branch point
\* (internal units) of the octane transforms, and the linear branch's offset.
BranchDisplay == 85 * Scale
BranchInternal == 9650000
LinearOffset == 1150000
\* 3.42, and 0.0135 as the ratio 27 / 2000.
ExpIntercept == 342000
SlopeNum == 27
SlopeDen == 2000

calculate_roi(ron) ==
    IF ron = Inf THEN Inf
    ELSE IF ron < BranchDisplay THEN ron + LinearOffset
    ELSE FExp(((ron * SlopeNum) \div SlopeDen) + ExpIntercept)

calculate_moi(mon) ==
    IF mon = Inf THEN Inf
    ELSE IF mon < BranchDisplay THEN mon + LinearOffset
    ELSE FExp(((mon * SlopeNum) \div SlopeDen) + ExpIntercept)

\* (rvp * 14.5) ** 1.25, the power taken as exp(1.25 * ln(.)); 0 ** 1.25 = 0.
calculate_rvi(rvp) ==
    IF rvp = Inf THEN Inf
    ELSE IF rvp = 0 THEN 0
    ELSE LET l == FLn((rvp * 29) \div 2)
         IN  FExp(l + (l \div 4))

reverse_roi_to_ron(roi) ==
    IF roi > BranchInternal
    THEN ((FLn(roi) - ExpIntercept) * SlopeDen) \div SlopeNum
    ELSE roi - LinearOffset

reverse_moi_to_mon(moi) ==
    IF moi > BranchInternal
    THEN ((FLn(moi) - ExpIntercept) * SlopeDen) \div SlopeNum
    ELSE moi - LinearOffset

\* (rvi ** (1/1.25)) / 14.5
reverse_rvi_to_rvp(rvi) ==
    IF rvi = 0 THEN 0
    ELSE (FExp((FLn(rvi) * 4) \div 5) * 2) \div 29

\* The forward and the reverse transform of a display property.
forward(prop, v) ==
    IF prop = "RON" THEN calculate_roi(v)
    ELSE IF prop = "MON" THEN calculate_moi(v)
    ELSE calculate_rvi(v)

reverse(prop, v) ==
    IF prop = "RON" THEN reverse_roi_to_ron(v)
    ELSE IF prop = "MON" THEN reverse_moi_to_mon(v)
    ELSE reverse_rvi_to_rvp(v)

\* -------------------------------------------------------------- request data

\* Largest component availability (barrels) of the modelled requests.
MaxVol == 3
\* Largest RVP display value (whole units) fed to the vapour-pressure transforms.
MaxRvp == 20
\* Largest octane display value (whole units) and grid steps per unit.
MaxDisplay == 200
StepsPerUnit == 10

\* run_lp: the three grades, in form order, and their selling prices.
grades == <<"Regular", "Premium", "Super Premium">>
gasoline_price == <<100, 110, 200>>

\* Two of the nine blendstocks of the form (Alkylate, Ethanol).
components == <<"AKK", "ETH">>
Comps == {components[i] : i \in 1..Len(components)}

\* cost = factor * regular price (0.70 * 100, 0.75 * 100).
component_cost == [c \in Comps |-> IF c = "AKK" THEN 70 ELSE 75]

\* Display properties of the two blendstocks (SPG, RON, RVP, E70).
display_properties ==
    [c \in Comps |->
        IF c = "AKK" THEN [SPG |-> 70320, RON |-> 7613000, RVP |-> 40300, E70 |-> 1000000]
        ELSE [SPG |-> 79100, RON |-> 12800000, RVP |-> 132900, E70 |-> 5000000]]

\* convert_component_properties: ROI, MOI and RVI are set from RON, MON and
\* RVP where those are present; the display properties are retained.
convert_component_properties(props) ==
    [c \in DOMAIN props |->
        LET given == DOMAIN props[c]
            derived == (IF "RON" \in given THEN {"ROI"} ELSE {})
                           \cup (IF "MON" \in given THEN {"MOI"} ELSE {})
                           \cup (IF "RVP" \in given THEN {"RVI"} ELSE {})
        IN  [p \in given \cup derived |->
                IF p \in derived
                THEN IF p = "ROI" THEN calculate_roi(props[c]["RON"])
                     ELSE IF p = "MOI" THEN calculate_moi(props[c]["MON"])
                     ELSE calculate_rvi(props[c]["RVP"])
                ELSE props[c][p]]]

\* run_lp: internal_properties_list, restricted to the modelled properties.
properties_list == <<"SPG", "RON", "ROI", "RVP", "RVI", "E70">>
Props == {properties_list[i] : i \in 1..Len(properties_list)}

\* property_value[(prop, comp)] = comp_data['properties'].get(prop, 0.0), for
\* every component and every property of the list.
MakePropertyValue(props) ==
    [k \in {<<p, c>> : p \in Props, c \in DOMAIN props} |->
        IF k[1] \in DOMAIN props[k[2]] THEN props[k[2]][k[1]] ELSE 0]

\* Variant: every bound is transformed, the sentinels included.
ConvertBoundsEveryBound(prop, bounds) ==
    [min |-> forward(prop, bounds.min), max |-> forward(prop, bounds.max)]

\* convert_specs_to_internal: ROI/MOI/RVI bounds are derived from the RON/MON/RVP
\* bounds; a min of exactly 0 (or infinite) and an infinite max are copied.
ConvertBounds(prop, bounds) ==
    [min |-> IF bounds.min # 0 /\ bounds.min # Inf THEN forward(prop, bounds.min) ELSE bounds.min,
     max |-> IF bounds.max # Inf THEN forward(prop, bounds.max) ELSE bounds.max]

InternalName(prop) ==
    IF prop = "RON" THEN "ROI" ELSE IF prop = "MON" THEN "MOI" ELSE "RVI"

DisplayName(prop) ==
    IF prop = "ROI" THEN "RON" ELSE IF prop = "MOI" THEN "MON" ELSE "RVP"

\* Variant: no internal-unit bounds are derived.
ConvertSpecsDisplayOnly(specs) == specs

convert_specs_to_internal(specs) ==
    LET D == DOMAIN specs
        derived == {InternalName(p) : p \in D \cap {"RON", "MON", "RVP"}}
    IN  [p \in D \cup derived |->
            IF p \in derived
            THEN [g \in DOMAIN specs[DisplayName(p)] |->
                     ConvertBounds(DisplayName(p), specs[DisplayName(p)][g])]
            ELSE specs[p]]

\* spec_bounds[(prop, grade)] = (min, max), built from the converted specs.
MakeSpecBounds(specs) ==
    [k \in {<<p, g>> : p \in DOMAIN specs, g \in {grades[i] : i \in 1..Len(grades)}} |->
        <<specs[k[1]][k[2]].min, specs[k[1]][k[2]].max>>]

\* spec_bounds.get((prop, grade), (0.0, float('inf')))
BoundsGet(sb, p, g) == IF <<p, g>> \in DOMAIN sb THEN sb[<<p, g>>] ELSE <<0, Inf>>

\* ------------------------------------------------------------ model builder

VARIABLE property_value     \* (prop, comp) -> value, internal properties included

Blends == [Comps -> 0..MaxVol]

RECURSIVE SumOver(_, _, _)
\* sum of f[components[i]] * b[components[i]] for i = 1..n
SumOver(f, b, n) ==
    IF n = 0 THEN 0 ELSE SumOver(f, b, n - 1) + f[components[n]] * b[components[n]]

Total(b) == SumOver([c \in Comps |-> 1], b, Len(components))
\* property_value.get((prop, comp), 0) * blend[comp], summed over the components
WeightedSum(p, b) ==
    SumOver([c \in Comps |-> IF <<p, c>> \in DOMAIN property_value
                              THEN property_value[<<p, c>>] ELSE 0], b, Len(components))
Cost(b) == SumOver(component_cost, b, Len(components))

\* price * total - sum of cost * volume
Profit(price, b) == price * Total(b) - Cost(b)

\* A single-grade model satisfied by blend b: volume window, availability,
\* component minimums, property minimums and maximums.
SatisfiesAt(m, b, total) ==
    /\ total >= m.vmin
    /\ total <= m.vmax
    /\ \A c \in Comps : b[c] <= m.avail[c]
    /\ \A c \in Comps : m.mincomp[c] > 0 => b[c] >= m.mincomp[c]
    /\ \A k \in m.pmin : WeightedSum(k[1], b) >= k[2] * total
    /\ \A k \in m.pmax : WeightedSum(k[1], b) <= k[2] * total

Satisfies(m, b) == SatisfiesAt(m, b, Total(b))

Feasible(m) == {b \in Blends : Satisfies(m, b)}

SetMax(S) == CHOOSE v \in S : \A w \in S : w <= v

\* model.solve(PULP_CBC_CMD): the status, and the optimal blends the solver may
\* return (any blend of maximal profit).
Status(m) == IF Feasible(m) = {} THEN "Infeasible" ELSE "Optimal"

BestProfit(price, F) == SetMax({Profit(price, b) : b \in F})

Optimum(m) == BestProfit(m.price, Feasible(m))

BlendsAt(price, F, best) == {b \in F : Profit(price, b) = best}

ArgMax(price, F) == BlendsAt(price, F, BestProfit(price, F))


\* ------------------------------------------------------------------- state

VARIABLES
    grades_data,            \* per grade: min and max volume (request input)
    components_data,        \* per component: availability, min_comp, properties (input)
    original_specs_data,    \* display-unit spec bounds (input)
    solver_choice,          \* the form's solver_choice (input)
    form_text,              \* the form field that holds non-numeric text, if any
    solver_used,            \* the report's 'Solver Used' label
    range_report,           \* what the range report holds
    pc,                     \* position in run_optimization
    spec_bounds,            \* (prop, grade) -> (min, max), internal units
    overall_status,         \* LpStatus of the combined model
    blend,                  \* the combined model's solution, per grade
    grade_results,          \* per grade: status and blend
    gi,                     \* current_grade_idx of the running loop
    result1,                \* main report: per grade, what was written
    infeasibility_report,   \* per grade, the diagnosis that was written
    has_infeasible_grades,
    component_summary,      \* component -> 'Used (bbl)'
    calls,                  \* solves and diagnoses of the orchestrator, in order
    active_constraints,     \* diagnosis locals
    constraint_idx,
    critical_constraints,
    critical_stage,         \* which stage filled critical_constraints
    pair_idx,
    min_relax,
    max_relax,
    best_relax,
    iteration,
    solution_paths,
    combination_solutions,
    n_solves,
    t_pc,                   \* position of a transform call sequence
    t_prop,                 \* the display property transformed: RON, MON or RVP
    t_x,                    \* display values given to the forward transform
    t_y,
    t_fx,                   \* their internal values
    t_fy,
    t_back,                 \* the reverse transform of t_fx
    t_specs,                \* specs given to convert_specs_to_internal
    t_conv                  \* its result

inputs == <<grades_data, components_data, original_specs_data, solver_choice, form_text>>
transform_vars == <<t_pc, t_prop, t_x, t_y, t_fx, t_fy, t_back, t_specs, t_conv>>
orch_vars == <<pc, property_value, spec_bounds, overall_status, blend, grade_results, gi, result1,
               infeasibility_report, has_infeasible_grades, component_summary, calls,
               solver_used, range_report>>
search_vars == <<min_relax, max_relax, best_relax, iteration>>
diag_vars == <<active_constraints, constraint_idx, critical_constraints, critical_stage, pair_idx,
               min_relax, max_relax, best_relax, iteration, solution_paths,
               combination_solutions, n_solves>>
vars == <<inputs, orch_vars, diag_vars, transform_vars>>

GradeIdx == 1..Len(grades)
\* d[k] = v on a dict: the key is added or overwritten.
Put(d, k, v) == [x \in DOMAIN d \cup {k} |-> IF x = k THEN v ELSE d[x]]
\* A value that is not set (None, or a key not yet in a dict).
None == "None"

barrel_min(i) == grades_data[i].min
barrel_max(i) == grades_data[i].max
component_availability == [c \in Comps |-> components_data[c].availability]
component_min_comp == [c \in Comps |-> components_data[c].min_comp]

\* ------------------------------------------------------- orchestrator models

\* The property rows run_optimization adds for a grade: a minimum for every
\* finite min (0 included), a maximum for every finite max.
OrchPropMin(g) ==
    {<<p, BoundsGet(spec_bounds, p, g)[1]>> : p \in {q \in Props : BoundsGet(spec_bounds, q, g)[1] # Inf}}

OrchPropMax(g) ==
    {<<p, BoundsGet(spec_bounds, p, g)[2]>> : p \in {q \in Props : BoundsGet(spec_bounds, q, g)[2] # Inf}}

\* single_model: the isolated model of one grade.
SingleGradeModel(i) ==
    [price |-> gasoline_price[i], vmin |-> barrel_min(i), vmax |-> barrel_max(i),
     avail |-> component_availability, mincomp |-> component_min_comp,
     pmin |-> OrchPropMin(grades[i]), pmax |-> OrchPropMax(grades[i])]

\* The rows of the combined model that mention one grade only: the grade's
\* volume window and property rows (blend >= 0 and the availability sum bound
\* each variable by the availability).
CombinedGradeRows(i) ==
    [price |-> gasoline_price[i], vmin |-> barrel_min(i), vmax |-> barrel_max(i),
     avail |-> component_availability, mincomp |-> [c \in Comps |-> 0],
     pmin |-> OrchPropMin(grades[i]), pmax |-> OrchPropMax(grades[i])]

RECURSIVE Used(_, _, _)
\* sum over the first n grades of component c's volume in joint solution j
Used(j, c, n) == IF n = 0 THEN 0 ELSE Used(j, c, n - 1) + j[n][c]

\* Variant: the availability rows are left out of the combined model.
AvailabilityRowDropped(j, n) == TRUE

\* {comp}_Availability_Max: the sum over grades is within the availability.
AvailabilityRow(j, n) == \A c \in Comps : Used(j, c, n) <= component_availability[c]

\* {comp}_Min_Comp: when min_comp > 0, the sum over grades reaches it.
MinCompRow(j, n) ==
    \A c \in Comps : component_min_comp[c] > 0 => Used(j, c, n) >= component_min_comp[c]

RECURSIVE JointFeasible(_)
\* Solutions of the combined model restricted to its first n grades.
JointFeasible(n) ==
    IF n = 0 THEN {<<>>}
    ELSE {j \in {Append(h, b) : h \in JointFeasible(n - 1), b \in Feasible(CombinedGradeRows(n))} :
             AvailabilityRow(j, n)}

CombinedFeasible == {j \in JointFeasible(Len(grades)) : MinCompRow(j, Len(grades))}

RECURSIVE TotalProfit(_, _)
TotalProfit(j, n) ==
    IF n = 0 THEN 0 ELSE TotalProfit(j, n - 1) + Profit(gasoline_price[n], j[n])

JointsAt(F, best) == {j \in F : TotalProfit(j, Len(grades)) = best}

\* The joint solutions of maximal total profit among F.
CombinedOptimal(F) == JointsAt(F, SetMax({TotalProfit(j, Len(grades)) : j \in F}))

\* --------------------------------------------------------- diagnosis models

\* Variant: a finite minimum is active, zero included.
IsActiveMinAnyFinite(v) == v # Inf

\* Lines 190-198, 260-270: which bounds become constraints of a test model
\* and entries of the active list.
IsActiveMin(v) == v # Inf /\ v > 0
IsActiveMax(v) == v # Inf

\* Variant: the first relaxation is applied to every property's bounds.
ApplyRelaxEveryProperty(mm, prop, relaxed, k) ==
    IF relaxed = <<>> THEN mm
    ELSE IF relaxed[1][2] = "min"
    THEN <<IF mm[1] - relaxed[1][3] > 0 THEN mm[1] - relaxed[1][3] ELSE 0, mm[2]>>
    ELSE <<mm[1], IF mm[2] # Inf THEN mm[2] + relaxed[1][3] ELSE Inf>>

RECURSIVE ApplyRelax(_, _, _, _)
\* create_test_model: the relaxations, applied in list order to one property's
\* (min, max): a min becomes max(0, min - amount), a finite max max + amount.
ApplyRelax(mm, prop, relaxed, k) ==
    IF k > Len(relaxed) THEN mm
    ELSE LET r == relaxed[k]
             next == IF r[1] # prop THEN mm
                     ELSE IF r[2] = "min"
                          THEN <<IF mm[1] = Inf THEN Inf
                                 ELSE IF mm[1] - r[3] > 0 THEN mm[1] - r[3] ELSE 0, mm[2]>>
                     ELSE IF r[2] = "max"
                          THEN <<mm[1], IF mm[2] # Inf THEN mm[2] + r[3] ELSE Inf>>
                     ELSE mm
         IN  ApplyRelax(next, prop, relaxed, k + 1)

TestBounds(g, p, relaxed) == ApplyRelax(BoundsGet(spec_bounds, p, g), p, relaxed, 1)

\* Variant: the relaxed (min, max) of each relaxed property is stored back
\* into spec_bounds.
BoundsAfterProbeStored(sb, g, relaxed) ==
    [k \in DOMAIN sb |->
        IF k[2] = g /\ \E n \in 1..Len(relaxed) : relaxed[n][1] = k[1]
        THEN ApplyRelax(sb[k], k[1], relaxed, 1)
        ELSE sb[k]]

\* Lines 180-189: create_test_model reads a property's (min, max) out of
\* spec_bounds into the locals min_val and max_val and relaxes the locals;
\* spec_bounds keeps its entries.
BoundsAfterProbe(sb, g, relaxed) == sb

\* create_test_model(relaxed_constraints): relaxed is a sequence of
\* <<prop, "min" | "max", amount>>.
create_test_model(i, relaxed) ==
    [price |-> gasoline_price[i], vmin |-> barrel_min(i), vmax |-> barrel_max(i),
     avail |-> component_availability, mincomp |-> component_min_comp,
     pmin |-> {<<p, TestBounds(grades[i], p, relaxed)[1]>> :
                  p \in {q \in Props : IsActiveMin(TestBounds(grades[i], q, relaxed)[1])}},
     pmax |-> {<<p, TestBounds(grades[i], p, relaxed)[2]>> :
                  p \in {q \in Props : IsActiveMax(TestBounds(grades[i], q, relaxed)[2])}}]

RECURSIVE ActiveFrom(_, _)
\* active_constraints: for each property in list order, (prop, 'min') when the
\* min is finite and > 0, then (prop, 'max') when the max is finite.
ActiveFrom(g, n) ==
    IF n = 0 THEN <<>>
    ELSE LET p == properties_list[n]
             mm == BoundsGet(spec_bounds, p, g)
         IN  ActiveFrom(g, n - 1)
                 \o (IF IsActiveMin(mm[1]) THEN << <<p, "min">> >> ELSE <<>>)
                 \o (IF IsActiveMax(mm[2]) THEN << <<p, "max">> >> ELSE <<>>)

ActiveConstraints(i) == ActiveFrom(grades[i], Len(properties_list))

\* The screening probe for constraint_key: the constraints are rebuilt and
\* the loop over properties 'continue's at the tested property.
SkipsProperty(test_prop, key) ==
    \/ (test_prop = key[1] /\ key[2] = "min")
    \/ (test_prop = key[1] /\ key[2] = "max")

\* Variant: the probe omits nothing.
ScreeningModelOmitsNothing(i, key) == create_test_model(i, <<>>)

ScreeningModel(i, key) ==
    LET kept == {p \in Props : ~SkipsProperty(p, key)}
    IN  [price |-> gasoline_price[i], vmin |-> barrel_min(i), vmax |-> barrel_max(i),
         avail |-> component_availability, mincomp |-> component_min_comp,
         pmin |-> {<<p, BoundsGet(spec_bounds, p, grades[i])[1]>> :
                      p \in {q \in kept : IsActiveMin(BoundsGet(spec_bounds, q, grades[i])[1])}},
         pmax |-> {<<p, BoundsGet(spec_bounds, p, grades[i])[2]>> :
                      p \in {q \in kept : IsActiveMax(BoundsGet(spec_bounds, q, grades[i])[2])}}]

\* Variant: the pairwise probe keeps every minimum.
PairKeepsMinAlways(tp, c1, c2) == TRUE

\* The pairwise probe: the three branches of the loop over properties.
PairKeepsMin(tp, c1, c2) ==
    IF (tp = c1[1] /\ c1[2] = "min") \/ (tp = c2[1] /\ c2[2] = "min") THEN FALSE
    ELSE TRUE

PairKeepsMax(tp, c1, c2) ==
    IF (tp = c1[1] /\ c1[2] = "min") \/ (tp = c2[1] /\ c2[2] = "min")
    THEN ~((tp = c1[1] /\ c1[2] = "max") \/ (tp = c2[1] /\ c2[2] = "max"))
    ELSE IF (tp = c1[1] /\ c1[2] = "max") \/ (tp = c2[1] /\ c2[2] = "max") THEN FALSE
    ELSE TRUE

\* Variant: the pairwise probe re-adds neither the volume minimum nor any
\* property row.
PairModelWithoutVolumeMin(i, c1, c2) ==
    [price |-> gasoline_price[i], vmin |-> 0, vmax |-> barrel_max(i),
     avail |-> component_availability, mincomp |-> component_min_comp,
     pmin |-> {}, pmax |-> {}]

PairModel(i, c1, c2) ==
    [price |-> gasoline_price[i], vmin |-> barrel_min(i), vmax |-> barrel_max(i),
     avail |-> component_availability, mincomp |-> component_min_comp,
     pmin |-> {<<p, BoundsGet(spec_bounds, p, grades[i])[1]>> :
                  p \in {q \in Props : PairKeepsMin(q, c1, c2)
                                       /\ IsActiveMin(BoundsGet(spec_bounds, q, grades[i])[1])}},
     pmax |-> {<<p, BoundsGet(spec_bounds, p, grades[i])[2]>> :
                  p \in {q \in Props : PairKeepsMax(q, c1, c2)
                                       /\ IsActiveMax(BoundsGet(spec_bounds, q, grades[i])[2])}}]

\* Binary search: iteration cap, tolerance 0.0001, and the seeded range by
\* property class.
MaxIterations == 25
Tolerance == 10

SearchRange(prop) ==
    IF prop \in {"ROI", "MOI", "RVI"} THEN <<1000, 10 * Scale>>
    ELSE IF prop \in {"E70", "E10", "E15", "ARO", "OLEFIN"} THEN <<10000, 20 * Scale>>
    ELSE IF prop \in {"SPG"} THEN <<100, 10000>>
    ELSE <<100, 50 * Scale>>

\* relax_levels = [0.05, 0.1, 0.2, 0.5, 1.0, 2.0, 3.0]
relax_levels == <<5000, 10000, 20000, 50000, 100000, 200000, 300000>>

RECURSIVE FirstComboSecondOuter(_, _, _, _)
\* Variant: the second bound's level is the outer loop.
FirstComboSecondOuter(i, c1, c2, k) ==
    LET n == Len(relax_levels)
    IN  IF k > n * n THEN <<n * n>>
        ELSE LET relax1 == relax_levels[((k - 1) % n) + 1]
                 relax2 == relax_levels[((k - 1) \div n) + 1]
                 m == create_test_model(i, << <<c1[1], c1[2], relax1>>, <<c2[1], c2[2], relax2>> >>)
             IN  IF Status(m) = "Optimal" THEN <<relax1, relax2, k>>
                 ELSE FirstComboSecondOuter(i, c1, c2, k + 1)

RECURSIVE FirstCombo(_, _, _, _)
\* The grid scan for one pair, first bound's level outer, second's inner: the
\* k-th solve is level (k-1) div 7 for constraint1 and (k-1) mod 7 for
\* constraint2.  Returns <<relax1, relax2, solves>>, or <<solves>> if none.
FirstCombo(i, c1, c2, k) ==
    LET n == Len(relax_levels)
    IN  IF k > n * n THEN <<n * n>>
        ELSE LET relax1 == relax_levels[((k - 1) \div n) + 1]
                 relax2 == relax_levels[((k - 1) % n) + 1]
                 m == create_test_model(i, << <<c1[1], c1[2], relax1>>, <<c2[1], c2[2], relax2>> >>)
             IN  IF Status(m) = "Optimal" THEN <<relax1, relax2, k>>
                 ELSE FirstCombo(i, c1, c2, k + 1)

RECURSIVE InsertSorted(_, _, _)
\* list.sort(key=...): stable, ascending; x is inserted after the entries
\* whose key is <= its own.  key is a function on the entries.
InsertSorted(s, x, key) ==
    IF s = <<>> THEN <<x>>
    ELSE IF key[s[Len(s)]] <= key[x] THEN Append(s, x)
    ELSE Append(InsertSorted(SubSeq(s, 1, Len(s) - 1), x, key), s[Len(s)])

RECURSIVE SortPrefix(_, _, _)
SortPrefix(s, n, key) ==
    IF n = 0 THEN <<>> ELSE InsertSorted(SortPrefix(s, n - 1, key), s[n], key)

\* The single-bound solutions left in the order they were found.
SortPathsNot(s) == s

\* solution_paths.sort(key=lambda x: x[1])
SortPaths(s) == SortPrefix(s, Len(s), [x \in {s[k] : k \in 1..Len(s)} |-> x.relax])

\* combination_solutions.sort(key=lambda x: sum(x['relaxations']))
SortCombos(s) ==
    SortPrefix(s, Len(s),
               [x \in {s[k] : k \in 1..Len(s)} |-> x.relaxations[1] + x.relaxations[2]])

\* The orders list(set(critical_constraints)) may produce.
Orders(S) ==
    {s \in [1..Cardinality(S) -> S] : \A a, b \in 1..Cardinality(S) : a # b => s[a] # s[b]}

SeqSet(s) == {s[k] : k \in 1..Len(s)}

\* ---------------------------------------------------------------- requests

\* specs_initial: the RON minimum of each grade (91, 95, 98), E70 22-48.
DefaultRonMin == <<91 * Scale, 95 * Scale, 98 * Scale>>
DefaultE70 == [min |-> 22 * Scale, max |-> 48 * Scale]

\* The spec rows a request may carry for one grade: the defaults; the RON
\* minimum at 150; the RON window 60-70; the default RON minimum with the E70
\* window 15-17; and RON unconstrained with an E70 maximum of 21 below the E70
\* minimum of 22.  SpecChoices[i] are those of grade i.  A further row,
\* "e70cap", has the default RON minimum and an E70 maximum of 10 with no
\* E70 minimum; another, "windows", has the default RON minimum with a RON
\* maximum of 120 and the E70 window 15-21.  SPG and RVP are left open (min
\* 0, max inf) except in the rows "spgcap" (SPG maximum 0.70) and "rvpcap"
\* (RVP maximum 0.3), which are otherwise the default row.  The row "roncap"
\* has a RON maximum of 75 and an E70 maximum of 48, with no minimum.  The row
\* "ronbelow" has a RON minimum of -5 and the E70 minimum of 22 above the E70
\* maximum of 21.
SpecChoices ==
    <<{"default", "e70over"}, {"default", "ronband"}, {"default", "ron150", "e70gap"}>>

\* The minimum volumes of the grades: the form's pattern (only Regular has
\* one) or one for every grade.
MinVolumeChoices == {<<1, 0, 0>>, <<1, 1, 1>>}

SpecRow(choice, i) ==
    [SPG |-> [min |-> 0, max |-> IF choice = "spgcap" THEN (7 * Scale) \div 10 ELSE Inf],
     RVP |-> [min |-> 0, max |-> IF choice = "rvpcap" THEN (3 * Scale) \div 10 ELSE Inf],
     RON |-> [min |-> IF choice = "ron150" THEN 150 * Scale
                      ELSE IF choice = "ronbelow" THEN 0 - 5 * Scale
                      ELSE IF choice = "ronband" THEN 60 * Scale
                      ELSE IF choice \in {"e70gap", "roncap"} THEN 0
                      ELSE DefaultRonMin[i],
              max |-> IF choice = "ronband" THEN 70 * Scale
                      ELSE IF choice = "roncap" THEN 75 * Scale
                      ELSE IF choice = "windows" THEN 120 * Scale
                      ELSE Inf],
     E70 |-> IF choice = "e70over" THEN [min |-> 15 * Scale, max |-> 17 * Scale]
             ELSE IF choice = "windows" THEN [min |-> 15 * Scale, max |-> 21 * Scale]
             ELSE IF choice = "e70cap" THEN [min |-> 0, max |-> 10 * Scale]
             ELSE IF choice = "roncap" THEN [min |-> 0, max |-> 48 * Scale]
             ELSE IF choice \in {"e70gap", "ronbelow"}
             THEN [min |-> 22 * Scale, max |-> 21 * Scale]
             ELSE DefaultE70]

SpecsFor(choice) ==
    [p \in {"SPG", "RON", "RVP", "E70"} |->
        [g \in {grades[i] : i \in GradeIdx} |->
            LET i == CHOOSE k \in GradeIdx : grades[k] = g
            IN  SpecRow(choice[i], i)[p]]]

GradeNames == {grades[i] : i \in GradeIdx}

\* The requests: volume minimums, the components' data (ample availability
\* and no minimum usage, or one barrel of each with one barrel of ETH to be
\* used) and one spec row per grade.
Requests ==
    /\ \E mins \in MinVolumeChoices :
           grades_data = [i \in GradeIdx |-> [min |-> mins[i], max |-> MaxVol + 1]]
    /\ \E cd \in {<<MaxVol, 0>>, <<1, 1>>} :
           components_data =
               [c \in Comps |-> [availability |-> cd[1],
                                 min_comp |-> IF c = "ETH" THEN cd[2] ELSE 0,
                                 properties |-> display_properties[c]]]
    /\ \E choice \in {c \in [GradeIdx -> UNION {SpecChoices[i] : i \in GradeIdx}] :
                           \A i \in GradeIdx : c[i] \in SpecChoices[i]} :
           original_specs_data = SpecsFor(choice)

\* The form's request: index()'s pattern of minimums and specs.
FormValues ==
    /\ grades_data = [i \in GradeIdx |-> [min |-> IF i = 1 THEN 1 ELSE 0, max |-> MaxVol + 1]]
    /\ components_data = [c \in Comps |-> [availability |-> MaxVol, min_comp |-> 0,
                 properties |-> display_properties[c]]]
    /\ original_specs_data = SpecsFor([i \in GradeIdx |-> "default"])

\* The form as index() renders it: every field numeric, solver_choice 'CBC'.
FormRequest ==
    /\ FormValues
    /\ solver_choice = "CBC"
    /\ form_text = None

\* A request whose Regular grade can only be blended half AKK, half ETH (one
\* barrel of each is available and one barrel of ETH must be used) and has
\* an E70 maximum of 10.
CapRequest ==
    /\ grades_data = [i \in GradeIdx |-> [min |-> 1, max |-> MaxVol + 1]]
    /\ components_data =
           [c \in Comps |-> [availability |-> 1, min_comp |-> IF c = "ETH" THEN 1 ELSE 0,
                 properties |-> display_properties[c]]]
    /\ original_specs_data = SpecsFor(<<"e70cap", "default", "default">>)
    /\ solver_choice = "CBC"
    /\ form_text = None

\* A request whose Regular grade has a window on RON and on E70, the RON
\* minimum and the E70 maximum excluding each other.
WindowRequest ==
    /\ grades_data = [i \in GradeIdx |-> [min |-> 1, max |-> MaxVol + 1]]
    /\ components_data = [c \in Comps |-> [availability |-> MaxVol, min_comp |-> 0,
                 properties |-> display_properties[c]]]
    /\ original_specs_data = SpecsFor(<<"windows", "default", "default">>)
    /\ solver_choice = "CBC"
    /\ form_text = None

\* The form's request with a RON maximum of 75 on Regular, below the RON of
\* both blendstocks, and no minimum.
OctaneCapRequest ==
    /\ grades_data = [i \in GradeIdx |-> [min |-> IF i = 1 THEN 1 ELSE 0, max |-> MaxVol + 1]]
    /\ components_data = [c \in Comps |-> [availability |-> MaxVol, min_comp |-> 0,
                                            properties |-> display_properties[c]]]
    /\ original_specs_data = SpecsFor(<<"roncap", "default", "default">>)
    /\ solver_choice = "CBC"
    /\ form_text = None

\* The form's request with a RON minimum of -5 on Regular: spec bounds are
\* any numbers float() parses.
NegativeMinimumRequest ==
    /\ grades_data = [i \in GradeIdx |-> [min |-> IF i = 1 THEN 1 ELSE 0, max |-> MaxVol + 1]]
    /\ components_data = [c \in Comps |-> [availability |-> MaxVol, min_comp |-> 0,
                                            properties |-> display_properties[c]]]
    /\ original_specs_data = SpecsFor(<<"ronbelow", "default", "default">>)
    /\ solver_choice = "CBC"
    /\ form_text = None

\* The form's request with an SPG maximum of 0.70 on Regular, below the SPG
\* of both blendstocks.
DensityRequest ==
    /\ grades_data = [i \in GradeIdx |-> [min |-> IF i = 1 THEN 1 ELSE 0, max |-> MaxVol + 1]]
    /\ components_data = [c \in Comps |-> [availability |-> MaxVol, min_comp |-> 0,
                                            properties |-> display_properties[c]]]
    /\ original_specs_data = SpecsFor(<<"spgcap", "default", "default">>)
    /\ solver_choice = "CBC"
    /\ form_text = None

\* The form's request with an RVP maximum of 0.3 on Regular, below the RVP
\* of both blendstocks.
VapourRequest ==
    /\ grades_data = [i \in GradeIdx |-> [min |-> IF i = 1 THEN 1 ELSE 0, max |-> MaxVol + 1]]
    /\ components_data = [c \in Comps |-> [availability |-> MaxVol, min_comp |-> 0,
                                            properties |-> display_properties[c]]]
    /\ original_specs_data = SpecsFor(<<"rvpcap", "default", "default">>)
    /\ solver_choice = "CBC"
    /\ form_text = None

\* The form's minimum volumes with ETH's E70 typed as -50 and Regular's E70
\* window 0-10: property values are any numbers float() parses.
NegativeRequest ==
    /\ grades_data = [i \in GradeIdx |-> [min |-> IF i = 1 THEN 1 ELSE 0, max |-> MaxVol + 1]]
    /\ components_data =
           [c \in Comps |->
               [availability |-> MaxVol, min_comp |-> 0,
                properties |-> IF c = "ETH"
                               THEN [display_properties[c] EXCEPT !["E70"] = 0 - 50 * Scale]
                               ELSE display_properties[c]]]
    /\ original_specs_data = SpecsFor(<<"e70cap", "default", "default">>)
    /\ solver_choice = "CBC"
    /\ form_text = None

\* The form's specs with a Premium minimum volume above Premium's maximum.
VolumeRequest ==
    /\ grades_data =
           [i \in GradeIdx |-> [min |-> IF i = 2 THEN MaxVol + 2 ELSE 1, max |-> MaxVol + 1]]
    /\ components_data = [c \in Comps |-> [availability |-> MaxVol, min_comp |-> 0,
                 properties |-> display_properties[c]]]
    /\ original_specs_data = SpecsFor(<<"default", "default", "default">>)
    /\ solver_choice = "CBC"
    /\ form_text = None

\* The requests that choose GLPK: those with the form's availabilities and
\* component minimums.
GlpkRequests ==
    /\ Requests
    /\ components_data = [c \in Comps |-> [availability |-> MaxVol, min_comp |-> 0,
                 properties |-> display_properties[c]]]
    /\ solver_choice = "GLPK"
    /\ form_text = None

\* run_lp: the form fields that may hold text that float() does not parse -
\* one of a grade, of a component, of a component's property, of a spec.
TextFields ==
    {"grade_Regular_min", "component_ETH_availability", "component_ETH_property_E70",
     "spec_E70_Regular_max"}

\* The form's request with one field holding non-numeric text.
TextRequests ==
    /\ FormValues
    /\ solver_choice = "CBC"
    /\ form_text \in TextFields

\* Lines 1147-1159, 1174-1207, 1213-1220: float() of a grade field, of a
\* component's factor, availability or min_comp, or of a spec bound raises
\* ValueError and run_lp returns the 400 response.
ParseRejects(field) ==
    field \in {"grade_Regular_min", "component_ETH_availability", "spec_E70_Regular_max"}

\* Lines 1189-1195: a component property that float() does not parse is 0.0.
ParsedProperties(field) ==
    [c \in Comps |->
        [p \in DOMAIN components_data[c].properties |->
            IF field = "component_ETH_property_E70" /\ c = "ETH" /\ p = "E70"
            THEN 0 ELSE components_data[c].properties[p]]]

\* run_optimization's locals before its first statement.
Locals ==
    /\ property_value = <<>>
    /\ spec_bounds = <<>>
    /\ overall_status = "Not Solved"
    /\ blend = None
    /\ grade_results = <<>>
    /\ gi = 1
    /\ result1 = <<>>
    /\ infeasibility_report = <<>>
    /\ has_infeasible_grades = FALSE
    /\ component_summary = None
    /\ calls = <<>>
    /\ solver_used = ""
    /\ range_report = None
    /\ active_constraints = <<>>
    /\ constraint_idx = 0
    /\ critical_constraints = <<>>
    /\ critical_stage = "none"
    /\ pair_idx = <<0, 0>>
    /\ min_relax = 0
    /\ max_relax = 0
    /\ best_relax = 0
    /\ iteration = 0
    /\ solution_paths = <<>>
    /\ combination_solutions = <<>>
    /\ n_solves = 0

\* No transform call is in progress.
TransformIdle ==
    /\ t_pc = "idle"
    /\ t_prop = None
    /\ t_x = 0
    /\ t_y = 0
    /\ t_fx = None
    /\ t_fy = None
    /\ t_back = None
    /\ t_specs = None
    /\ t_conv = None

Init ==
    /\ \/ Requests /\ solver_choice = "CBC" /\ form_text = None
       \/ GlpkRequests
       \/ CapRequest
       \/ WindowRequest
       \/ VolumeRequest
       \/ NegativeRequest
       \/ DensityRequest
       \/ NegativeMinimumRequest
       \/ OctaneCapRequest
       \/ VapourRequest
       \/ TextRequests
    /\ pc = "request"
    /\ Locals
    /\ TransformIdle

\* ------------------------------------------------------------------ run_lp

\* Lines 1144-1225: the form is parsed; a field that float() rejects ends the
\* request with a 400 response, otherwise run_optimization is called.
RunLp ==
    /\ pc = "request"
    /\ pc' = IF ParseRejects(form_text) THEN "rejected" ELSE "start"
    /\ UNCHANGED <<transform_vars, inputs, solver_used, range_report, property_value, spec_bounds,
                   overall_status, blend, grade_results, gi, result1, infeasibility_report,
                   has_infeasible_grades, component_summary, calls, diag_vars>>

\* ------------------------------------------------------------ orchestrator

\* Lines 628-655: conversions and spec_bounds; an empty component list raises
\* ValueError.
Prepare ==
    /\ pc = "start"
    /\ property_value' =
           MakePropertyValue(convert_component_properties(ParsedProperties(form_text)))
    /\ spec_bounds' = MakeSpecBounds(convert_specs_to_internal(original_specs_data))
    /\ pc' = IF components = <<>> THEN "error" ELSE "build"
    /\ UNCHANGED <<transform_vars, inputs, solver_used, range_report, overall_status, blend, grade_results, gi, result1,
                   infeasibility_report, has_infeasible_grades, component_summary, calls,
                   diag_vars>>

\* Lines 700-704: what model.solve(GLPK_CMD(...)) may do: solve the model, or
\* raise PulpSolverError (glpsol cannot be executed, or ends without a
\* solution file) or FileNotFoundError.
GlpkOutcomes == {"solved", "PulpSolverError", "FileNotFoundError"}

\* Line 702: except (pulp.PulpSolverError, FileNotFoundError).
Caught(e) == e \in {"PulpSolverError", "FileNotFoundError"}

\* Lines 696-706: solver_used.
SolverLabel(choice, outcome) ==
    IF choice = "GLPK"
    THEN IF outcome = "solved" THEN "GLPK" ELSE "CBC (Fallback)"
    ELSE "CBC"

\* Lines 657-810: the combined model is built and solved - by GLPK when it is
\* chosen and runs, by CBC otherwise; when Optimal every grade takes its blend
\* from it, otherwise the isolated solves follow.
SolveCombined ==
    /\ pc = "build"
    /\ calls' = Append(calls, <<"combined">>)
    /\ \E outcome \in (IF solver_choice = "GLPK" THEN GlpkOutcomes ELSE {"not run"}) :
       IF outcome \notin {"not run", "solved"} /\ ~Caught(outcome)
       THEN /\ solver_used' = "GLPK"
            /\ pc' = "error"
            /\ UNCHANGED <<overall_status, blend, grade_results>>
       ELSE
       /\ solver_used' = SolverLabel(solver_choice, outcome)
       /\ \E F \in {CombinedFeasible} :
          IF F = {}
          THEN /\ overall_status' = "Infeasible"
               /\ blend' = None
               /\ grade_results' = grade_results
               /\ pc' = "single"
          ELSE /\ overall_status' = "Optimal"
               /\ \E j \in CombinedOptimal(F) :
                      /\ blend' = [g \in GradeNames |-> j[CHOOSE k \in GradeIdx : grades[k] = g]]
                      /\ grade_results' =
                             [g \in GradeNames |->
                                 [status |-> "Optimal",
                                  blend |-> j[CHOOSE k \in GradeIdx : grades[k] = g],
                                  profit |-> 0]]
               /\ pc' = "display"
    /\ gi' = 1
    /\ UNCHANGED <<transform_vars, inputs, range_report, property_value, spec_bounds, result1, infeasibility_report,
                   has_infeasible_grades, component_summary, diag_vars>>

\* Lines 755-801: one iteration of the loop of isolated single-grade solves.
SolveSingle ==
    /\ pc = "single"
    /\ \E F \in {Feasible(SingleGradeModel(gi))} :
           IF F # {}
           THEN \E b \in ArgMax(gasoline_price[gi], F) :
                    grade_results' = Put(grade_results, grades[gi],
                        [status |-> "Optimal", blend |-> b,
                         profit |-> Profit(gasoline_price[gi], b)])
           ELSE grade_results' = Put(grade_results, grades[gi],
                        [status |-> "Infeasible", blend |-> None, profit |-> 0])
    /\ calls' = Append(calls, <<"single", grades[gi]>>)
    /\ IF gi < Len(grades)
       THEN gi' = gi + 1 /\ pc' = "single"
       ELSE gi' = 1 /\ pc' = "display"
    /\ UNCHANGED <<transform_vars, inputs, solver_used, range_report, property_value, spec_bounds, overall_status, blend, result1,
                   infeasibility_report, has_infeasible_grades, component_summary,
                   diag_vars>>

\* Variant: every grade is handed to the diagnosis.
NeedsDiagnosisAlways(g) == TRUE

\* Line 822: if grade_results[current_grade]['status'] != 'Optimal'.
NeedsDiagnosis(g) == grade_results[g].status # "Optimal"

\* Variant: the display loop ends after the section it has just written.
NextGradeEndsLoop == gi' = gi /\ pc' = "components"

\* The display loop moves to the next grade, or past its end.
NextGrade ==
    IF gi < Len(grades)
    THEN gi' = gi + 1 /\ pc' = "display"
    ELSE gi' = gi /\ pc' = "components"

\* Lines 845-863: the blend of an Optimal grade is written to the report.
DisplayBlend ==
    /\ pc = "display"
    /\ ~NeedsDiagnosis(grades[gi])
    /\ LET current_blend == IF overall_status = "Optimal" THEN blend[grades[gi]]
                            ELSE grade_results[grades[gi]].blend
           volume == Total(current_blend)
           cost == Cost(current_blend)
           revenue == gasoline_price[gi] * volume
       IN  result1' = Put(result1, grades[gi],
               [kind |-> "blend", total_volume |-> volume, total_cost |-> cost,
                total_revenue |-> revenue, profit |-> revenue - cost,
                volumes |-> current_blend])
    /\ NextGrade
    /\ UNCHANGED <<transform_vars, inputs, solver_used, range_report, property_value, spec_bounds, overall_status, blend, grade_results,
                   infeasibility_report, has_infeasible_grades, component_summary, calls,
                   diag_vars>>

\* Line 965: the range analysis is attempted when GLPK was chosen and the
\* combined status is Optimal.
RangeAnalysisAttempted == solver_choice = "GLPK" /\ overall_status = "Optimal"

\* Lines 1071-1077: subprocess.run(glpsol ... --ranges) completes, or raises
\* CalledProcessError or FileNotFoundError, which are caught.
RangeOutcomes == {"completed", "CalledProcessError", "FileNotFoundError"}

\* Lines 937-950 and 962-1088: the component summary's 'Used' column, the
\* range report, and the return.
ComponentSummary ==
    /\ pc = "components"
    /\ component_summary' =
           [c \in Comps |->
               IF overall_status = "Optimal" THEN Used([k \in GradeIdx |-> blend[grades[k]]], c, Len(grades))
               ELSE Used([k \in GradeIdx |->
                             IF grade_results[grades[k]].status = "Optimal"
                             THEN grade_results[grades[k]].blend
                             ELSE [d \in Comps |-> 0]], c, Len(grades))]
    /\ \E run \in (IF RangeAnalysisAttempted THEN RangeOutcomes ELSE {"not run"}) :
           range_report' = IF run = "completed" THEN "GLPK ranges" ELSE "unavailable"
    /\ pc' = "done"
    /\ UNCHANGED <<transform_vars, inputs, solver_used, property_value, spec_bounds, overall_status, blend, grade_results, gi, result1,
                   infeasibility_report, has_infeasible_grades, calls, diag_vars>>

\* Variant: the closing line is written when the combined solve was Optimal.
ClosingLineByOverallStatus(infeasible) ==
    IF overall_status = "Optimal"
    THEN "All grades were successfully optimized. No infeasibility issues found."
    ELSE None

\* Lines 1083-1086: the line that closes the infeasibility report, given
\* has_infeasible_grades.
ClosingLine(infeasible) ==
    IF ~infeasible
    THEN "All grades were successfully optimized. No infeasibility issues found."
    ELSE None

\* The infeasibility report as returned on line 1088: the diagnoses written by
\* the display loop, then the closing line.
InfeasibilityReportReturned ==
    [diagnoses |-> infeasibility_report, closing |-> ClosingLine(has_infeasible_grades)]

\* ---------------------------------------------------------------- diagnosis

\* The diagnosis of the current grade returns: its outcome is written to the
\* infeasibility report (lines 835-843) and the display loop continues.
ReturnDiagnostics(rep) ==
    /\ infeasibility_report' = Put(infeasibility_report, grades[gi], rep)
    /\ result1' = Put(result1, grades[gi], [kind |-> "diagnosis"])
    /\ has_infeasible_grades' = TRUE
    /\ NextGrade
    /\ active_constraints' = <<>>
    /\ constraint_idx' = 0
    /\ critical_constraints' = <<>>
    /\ critical_stage' = "none"
    /\ pair_idx' = <<0, 0>>
    /\ min_relax' = 0
    /\ max_relax' = 0
    /\ best_relax' = 0
    /\ iteration' = 0
    /\ solution_paths' = <<>>
    /\ combination_solutions' = <<>>
    /\ n_solves' = 0

\* best_path = solution_paths[0], written only if there is a solution.
RecommendedSolution(paths) == SubSeq(paths, 1, IF Len(paths) < 1 THEN Len(paths) ELSE 1)

\* solution_paths[1:3]
AlternativeSolutions(paths) == SubSeq(paths, 2, IF Len(paths) < 3 THEN Len(paths) ELSE 3)

\* best_combo = combination_solutions[0], written only if there is a combination.
BestCombination(combos) == SubSeq(combos, 1, IF Len(combos) < 1 THEN Len(combos) ELSE 1)

Report(outcome, active, critical, stage, paths, combos, solves) ==
    [outcome |-> outcome, active |-> active, critical |-> critical, stage |-> stage,
     solution_paths |-> paths, combination_solutions |-> combos,
     shown_combinations |-> SubSeq(combos, 1, IF Len(combos) < 3 THEN Len(combos) ELSE 3),
     recommended |-> RecommendedSolution(paths),
     alternatives |-> AlternativeSolutions(paths),
     best_combination |-> BestCombination(combos),
     solves |-> solves]

\* "Even pairwise constraint removal doesn't achieve feasibility."
Inconclusive(active, solves) ==
    Report("requires_significant_changes", active, <<>>, "none", <<>>, <<>>, solves)

\* Variant: the base model's status is not looked at.
BaseConfirmedAlways(i) == TRUE

\* Lines 243-250: the base model is rebuilt and solved; the diagnosis goes on
\* only if its status is not Optimal.
BaseConfirmed(i) == Status(create_test_model(i, <<>>)) # "Optimal"

\* Lines 822-833 and 242-274: analyze_grade_infeasibility is called for a grade
\* whose status is not Optimal; the base model is rebuilt and solved, and the
\* active constraints are listed.
DiagnoseConfirm ==
    /\ pc = "display"
    /\ NeedsDiagnosis(grades[gi])
    /\ calls' = Append(calls, <<"diagnose", grades[gi]>>)
    /\ IF ~BaseConfirmed(gi)
       THEN ReturnDiagnostics(Report("actually_feasible", <<>>, <<>>, "none", <<>>, <<>>, 1))
       ELSE IF ActiveConstraints(gi) = <<>>
       THEN ReturnDiagnostics(Inconclusive(<<>>, 1))
       ELSE /\ active_constraints' = ActiveConstraints(gi)
            /\ constraint_idx' = 1
            /\ n_solves' = 1
            /\ pc' = "screen"
            /\ UNCHANGED <<gi, result1, infeasibility_report, has_infeasible_grades,
                           critical_constraints, critical_stage, pair_idx, search_vars,
                           solution_paths, combination_solutions>>
    /\ UNCHANGED <<transform_vars, inputs, solver_used, range_report, property_value, spec_bounds, overall_status, blend, grade_results,
                   component_summary>>

\* Lines 283-327: one iteration of single-constraint screening.
ScreenProbe ==
    /\ pc = "screen"
    /\ \E found \in {IF Status(ScreeningModel(gi, active_constraints[constraint_idx])) = "Optimal"
                       THEN Append(critical_constraints, active_constraints[constraint_idx])
                       ELSE critical_constraints} :
           IF constraint_idx < Len(active_constraints)
           THEN /\ critical_constraints' = found
                /\ constraint_idx' = constraint_idx + 1
                /\ n_solves' = n_solves + 1
                /\ UNCHANGED <<pc, gi, result1, infeasibility_report, has_infeasible_grades,
                               active_constraints, critical_stage, pair_idx>>
           ELSE IF found # <<>>
           THEN /\ critical_constraints' = found
                /\ critical_stage' = "single"
                /\ n_solves' = n_solves + 1
                /\ pc' = "dedup"
                /\ UNCHANGED <<gi, result1, infeasibility_report, has_infeasible_grades,
                               active_constraints, constraint_idx, pair_idx>>
           ELSE IF Len(active_constraints) < 2
           THEN ReturnDiagnostics(Inconclusive(active_constraints, n_solves + 1))
           ELSE /\ pair_idx' = <<1, 2>>
                /\ n_solves' = n_solves + 1
                /\ pc' = "pairwise"
                /\ UNCHANGED <<gi, result1, infeasibility_report, has_infeasible_grades,
                               active_constraints, constraint_idx, critical_constraints,
                               critical_stage>>
    /\ UNCHANGED <<transform_vars, inputs, solver_used, range_report, property_value, spec_bounds, overall_status, blend, grade_results,
                   component_summary, calls, search_vars, solution_paths,
                   combination_solutions>>

\* Variant: the scan ends after its first pair.
NextPairEndsScan(p, n) == <<0, 0>>

\* The pair after <<a, b>> in the scan i < j over a list of n entries, or
\* <<0, 0>> after the last.
NextPair(p, n) ==
    IF p[2] < n THEN <<p[1], p[2] + 1>>
    ELSE IF p[1] + 1 < n THEN <<p[1] + 1, p[1] + 2>>
    ELSE <<0, 0>>

\* Lines 347-407: one probe of the pairwise scan; the first feasible pair
\* becomes the critical set, and the scan's end without one ends the diagnosis.
PairProbe ==
    /\ pc = "pairwise"
    /\ LET constraint1 == active_constraints[pair_idx[1]]
           constraint2 == active_constraints[pair_idx[2]]
           next == NextPair(pair_idx, Len(active_constraints))
       IN  IF Status(PairModel(gi, constraint1, constraint2)) = "Optimal"
           THEN /\ critical_constraints' = <<constraint1, constraint2>>
                /\ critical_stage' = "pair"
                /\ n_solves' = n_solves + 1
                /\ pc' = "dedup"
                /\ UNCHANGED <<gi, result1, infeasibility_report, has_infeasible_grades,
                               active_constraints, constraint_idx, pair_idx>>
           ELSE IF next # <<0, 0>>
           THEN /\ pair_idx' = next
                /\ n_solves' = n_solves + 1
                /\ UNCHANGED <<pc, gi, result1, infeasibility_report, has_infeasible_grades,
                               active_constraints, constraint_idx, critical_constraints,
                               critical_stage>>
           ELSE ReturnDiagnostics(Inconclusive(active_constraints, n_solves + 1))
    /\ UNCHANGED <<transform_vars, inputs, solver_used, range_report, property_value, spec_bounds, overall_status, blend, grade_results,
                   component_summary, calls, search_vars, solution_paths,
                   combination_solutions>>

\* Lines 415-441: critical_constraints = list(set(critical_constraints)), in
\* whatever order the set iterates; then the first path's search range.
Dedup ==
    /\ pc = "dedup"
    /\ \E order \in Orders(SeqSet(critical_constraints)) :
           /\ critical_constraints' = order
           /\ min_relax' = SearchRange(order[1][1])[1]
           /\ max_relax' = SearchRange(order[1][1])[2]
    /\ constraint_idx' = 1
    /\ best_relax' = 0
    /\ iteration' = 0
    /\ pc' = "search"
    /\ UNCHANGED <<transform_vars, inputs, solver_used, range_report, property_value, spec_bounds, overall_status, blend, grade_results, gi, result1,
                   infeasibility_report, has_infeasible_grades, component_summary, calls,
                   active_constraints, critical_stage, pair_idx, solution_paths,
                   combination_solutions, n_solves>>

\* Variant: the upper end of the bracket is probed.
TestRelaxUpperEnd(lo, hi) == hi

\* test_relax = (min_relax + max_relax) / 2
TestRelax(lo, hi) == (lo + hi) \div 2

\* Variant: the search runs to the iteration cap.
SearchEndsAtCap(lo, hi, done) == done >= MaxIterations

\* Lines 443 and 457-458: the loop ends after `done' iterations when the
\* bracket is narrower than the tolerance, or at the end of range(25).
SearchEnds(lo, hi, done) == hi - lo < Tolerance \/ done >= MaxIterations

\* Lines 443-458: one iteration of the binary search for the current path.
SearchIter ==
    /\ pc = "search"
    /\ LET key == critical_constraints[constraint_idx]
           test_relax == TestRelax(min_relax, max_relax)
       IN  \E optimal \in {Status(create_test_model(gi, << <<key[1], key[2], test_relax>> >>))
                               = "Optimal"} :
               /\ best_relax' = IF optimal THEN test_relax ELSE best_relax
               /\ min_relax' = IF optimal THEN min_relax ELSE test_relax
               /\ max_relax' = IF optimal THEN test_relax ELSE max_relax
               /\ iteration' = iteration + 1
               /\ pc' = IF SearchEnds(min_relax', max_relax', iteration + 1)
                        THEN "path" ELSE "search"
               /\ spec_bounds' = BoundsAfterProbe(spec_bounds, grades[gi],
                                                  << <<key[1], key[2], test_relax>> >>)
    /\ n_solves' = n_solves + 1
    /\ UNCHANGED <<transform_vars, inputs, solver_used, range_report, property_value, overall_status, blend, grade_results, gi, result1,
                   infeasibility_report, has_infeasible_grades, component_summary, calls,
                   active_constraints, constraint_idx, critical_constraints,
                   critical_stage, pair_idx, solution_paths, combination_solutions>>

\* Lines 460-510: a found relaxation is solved once more and recorded as a
\* solution path; then the next path, the combination stage or the summary.
PathResult ==
    /\ pc = "path"
    /\ LET key == critical_constraints[constraint_idx]
       IN  IF best_relax # 0
           THEN /\ \E F \in {Feasible(create_test_model(gi, << <<key[1], key[2], best_relax>> >>))} :
                       solution_paths' = Append(solution_paths,
                           [constraint |-> key, relax |-> best_relax,
                            profit |-> IF F # {} THEN BestProfit(gasoline_price[gi], F) ELSE 0])
                /\ n_solves' = n_solves + 1
                /\ spec_bounds' = BoundsAfterProbe(spec_bounds, grades[gi],
                                                   << <<key[1], key[2], best_relax>> >>)
           ELSE UNCHANGED <<solution_paths, n_solves, spec_bounds>>
    /\ IF constraint_idx < Len(critical_constraints)
       THEN /\ constraint_idx' = constraint_idx + 1
            /\ min_relax' = SearchRange(critical_constraints[constraint_idx + 1][1])[1]
            /\ max_relax' = SearchRange(critical_constraints[constraint_idx + 1][1])[2]
            /\ best_relax' = 0
            /\ iteration' = 0
            /\ pc' = "search"
            /\ UNCHANGED pair_idx
       ELSE /\ pc' = IF Len(critical_constraints) > 1 THEN "combo" ELSE "summary"
            /\ pair_idx' = IF Len(critical_constraints) > 1 THEN <<1, 2>> ELSE pair_idx
            /\ UNCHANGED <<constraint_idx, search_vars>>
    /\ UNCHANGED <<transform_vars, inputs, solver_used, range_report, property_value, overall_status, blend, grade_results, gi, result1,
                   infeasibility_report, has_infeasible_grades, component_summary, calls,
                   active_constraints, critical_constraints, critical_stage,
                   combination_solutions>>

\* Lines 521-563: the grid scan for one pair of critical constraints.
ComboPair ==
    /\ pc = "combo"
    /\ LET constraint1 == critical_constraints[pair_idx[1]]
           constraint2 == critical_constraints[pair_idx[2]]
           next == NextPair(pair_idx, Len(critical_constraints))
       IN  \E r \in {FirstCombo(gi, constraint1, constraint2, 1)} :
           /\ IF Len(r) = 3
              THEN combination_solutions' = Append(combination_solutions,
                       [constraints |-> <<constraint1, constraint2>>,
                        relaxations |-> <<r[1], r[2]>>,
                        profit |-> Optimum(create_test_model(gi,
                            << <<constraint1[1], constraint1[2], r[1]>>,
                               <<constraint2[1], constraint2[2], r[2]>> >>))])
              ELSE UNCHANGED combination_solutions
           /\ n_solves' = n_solves + r[Len(r)]
           /\ spec_bounds' = BoundsAfterProbe(spec_bounds, grades[gi],
                  << <<constraint1[1], constraint1[2],
                       relax_levels[((r[Len(r)] - 1) \div Len(relax_levels)) + 1]>>,
                     <<constraint2[1], constraint2[2],
                       relax_levels[((r[Len(r)] - 1) % Len(relax_levels)) + 1]>> >>)
           /\ IF next # <<0, 0>>
              THEN pair_idx' = next /\ pc' = "combo"
              ELSE pair_idx' = pair_idx /\ pc' = "summary"
    /\ UNCHANGED <<transform_vars, inputs, solver_used, range_report, property_value, overall_status, blend, grade_results, gi, result1,
                   infeasibility_report, has_infeasible_grades, component_summary, calls,
                   active_constraints, constraint_idx, critical_constraints,
                   critical_stage, search_vars, solution_paths>>

\* Lines 566-623: both lists are sorted, the summary is written, and the
\* diagnosis returns.
Summarize ==
    /\ pc = "summary"
    /\ ReturnDiagnostics(Report("analysed", active_constraints, critical_constraints,
                                critical_stage, SortPaths(solution_paths),
                                SortCombos(combination_solutions), n_solves))
    /\ UNCHANGED <<transform_vars, inputs, solver_used, range_report, property_value, spec_bounds, overall_status, blend, grade_results,
                   component_summary, calls>>

Next ==
    \/ RunLp
    \/ Prepare
    \/ SolveCombined
    \/ SolveSingle
    \/ DisplayBlend
    \/ DiagnoseConfirm
    \/ ScreenProbe
    \/ PairProbe
    \/ Dedup
    \/ SearchIter
    \/ PathResult
    \/ ComboPair
    \/ Summarize
    \/ ComponentSummary

Spec == Init /\ [][Next]_vars

\* run_lp has returned: the reports (lines 1227-1241), the 400 response of a
\* rejected form, or the error response of an exception.
Returned == pc \in {"done", "rejected", "error"}

\* The request handler is one thread that runs run_lp from its first
\* statement to its return: as long as it has not returned, its next step is
\* taken.  This is weak fairness of Next, WF_vars(Next), with ENABLED
\* <<Next>>_vars written out as ~Returned (every state that has not returned
\* has a next step, and every step changes pc, gi or a counter).
FairSpec == Init /\ [][Next]_vars /\ ([]<>Returned \/ []<><<Next>>_vars)

\* ------------------------------------------- the transform layer by itself

DisplayProps == {"RON", "MON", "RVP"}

\* Display values: a grid of StepsPerUnit steps per unit from 0 to the
\* property's largest value.
MaxOf(prop) == IF prop = "RVP" THEN MaxRvp ELSE MaxDisplay

DisplayGrid(prop) == {(n * Scale) \div StepsPerUnit : n \in 0..(MaxOf(prop) * StepsPerUnit)}

\* Bounds of a spec row: the whole units of the grid, and the two sentinels.
BoundValues(prop) == {k * Scale : k \in 0..MaxOf(prop)} \cup {Inf}

\* No request is being optimised.
OrchestratorIdle ==
    /\ FormRequest
    /\ pc = "idle"
    /\ Locals

TransformInit ==
    /\ OrchestratorIdle
    /\ t_prop \in DisplayProps
    /\ t_fx = None
    /\ t_fy = None
    /\ t_back = None
    /\ t_conv = None
    /\ \/ /\ t_pc = "forward"
          /\ t_x \in DisplayGrid(t_prop)
          /\ t_y \in {t_x + (Scale \div StepsPerUnit), t_x + Scale}
          /\ t_specs = None
       \/ /\ t_pc = "specs"
          /\ t_x \in BoundValues(t_prop)
          /\ t_y \in {Inf, 0} \cup (IF t_x = Inf THEN {} ELSE {t_x + Scale})
          /\ t_specs = [p \in {t_prop, "E70"} |->
                           [g \in {grades[1]} |->
                               IF p = "E70" THEN DefaultE70 ELSE [min |-> t_x, max |-> t_y]]]

\* calculate_roi / calculate_moi / calculate_rvi applied to two display values.
Forward ==
    /\ t_pc = "forward"
    /\ t_fx' = forward(t_prop, t_x)
    /\ t_fy' = forward(t_prop, t_y)
    /\ t_pc' = "reverse"
    /\ UNCHANGED <<inputs, orch_vars, diag_vars, t_prop, t_x, t_y, t_back, t_specs, t_conv>>

\* reverse_roi_to_ron / reverse_moi_to_mon / reverse_rvi_to_rvp applied to the
\* forward value.
Reverse ==
    /\ t_pc = "reverse"
    /\ t_back' = reverse(t_prop, t_fx)
    /\ t_pc' = "done"
    /\ UNCHANGED <<inputs, orch_vars, diag_vars, t_prop, t_x, t_y, t_fx, t_fy, t_specs, t_conv>>

\* convert_specs_to_internal applied to a spec table.
ConvertSpecs ==
    /\ t_pc = "specs"
    /\ t_conv' = convert_specs_to_internal(t_specs)
    /\ t_pc' = "converted"
    /\ UNCHANGED <<inputs, orch_vars, diag_vars, t_prop, t_x, t_y, t_fx, t_fy, t_back, t_specs>>

TransformNext ==
    \/ Forward
    \/ Reverse
    \/ ConvertSpecs

TransformSpec == TransformInit /\ [][TransformNext]_vars

\* ------------------------------------------------- the summary by itself

\* The largest number of critical bounds of the diagnosed grade.
MaxFound == 4

\* The bounds a grade may have: one minimum and one maximum per property.
SummaryKeys == [n \in 1..(2 * Len(properties_list)) |->
                   <<properties_list[(n + 1) \div 2], IF n % 2 = 1 THEN "min" ELSE "max">>]

\* best_relax after a binary search: 0 (no solution) or an amount.
FoundAmounts == {0, relax_levels[1], relax_levels[2], relax_levels[3]}

\* The grid cell accepted for a pair of critical bounds: none, or its levels.
AcceptedCells == {<<>>, <<relax_levels[1], relax_levels[1]>>, <<relax_levels[2], relax_levels[1]>>,
                  <<relax_levels[1], relax_levels[2]>>}

RECURSIVE PathsFound(_, _, _)
\* Lines 419-510: one entry per critical bound whose search found an amount,
\* in the order of the critical list.
PathsFound(crit, amount, n) ==
    IF n = 0 THEN <<>>
    ELSE PathsFound(crit, amount, n - 1)
             \o (IF amount[n] # 0
                 THEN <<[constraint |-> crit[n], relax |-> amount[n], profit |-> 0]>>
                 ELSE <<>>)

RECURSIVE CombinationsAccepted(_, _, _)
\* Lines 521-563: one entry per pair of critical bounds with an accepted cell;
\* the pairs drawn are those of neighbours in the critical list.
CombinationsAccepted(crit, cell, n) ==
    IF n = 0 THEN <<>>
    ELSE CombinationsAccepted(crit, cell, n - 1)
             \o (IF cell[n] # <<>>
                 THEN <<[constraints |-> <<crit[n], crit[n + 1]>>, relaxations |-> cell[n],
                         profit |-> 0]>>
                 ELSE <<>>)

\* analyze_grade_infeasibility about to write its summary for the first grade
\* of an Infeasible request: the critical bounds, the single-bound solutions
\* found and the combinations accepted are drawn.
SummaryInit ==
    /\ FormRequest
    /\ TransformIdle
    /\ pc = "summary"
    /\ property_value = MakePropertyValue(convert_component_properties(ParsedProperties(None)))
    /\ spec_bounds = MakeSpecBounds(convert_specs_to_internal(original_specs_data))
    /\ overall_status = "Infeasible"
    /\ blend = None
    /\ grade_results = [g \in GradeNames |-> [status |-> "Infeasible", blend |-> None, profit |-> 0]]
    /\ gi = 1
    /\ result1 = <<>>
    /\ infeasibility_report = <<>>
    /\ has_infeasible_grades = FALSE
    /\ component_summary = None
    /\ calls = <<>>
    /\ solver_used = "CBC"
    /\ range_report = None
    /\ critical_constraints = SubSeq(SummaryKeys, 1, MaxFound)
    /\ active_constraints = critical_constraints
    /\ constraint_idx = Len(critical_constraints)
    /\ critical_stage = "single"
    /\ pair_idx = <<MaxFound - 1, MaxFound>>
    /\ min_relax = 0
    /\ max_relax = 0
    /\ best_relax = 0
    /\ iteration = 0
    /\ \E amount \in [1..MaxFound -> FoundAmounts] :
           solution_paths = PathsFound(critical_constraints, amount, MaxFound)
    /\ \E cell \in [1..(MaxFound - 1) -> AcceptedCells] :
           combination_solutions = CombinationsAccepted(critical_constraints, cell, MaxFound - 1)
    /\ n_solves = 0

SummaryNext == Summarize

SummarySpec == SummaryInit /\ [][SummaryNext]_vars

\* ------------------------------------------------------------------ claims

\* Component c's volume summed over the grades whose blend was reported.
ReportedUse(c) ==
    Used([k \in GradeIdx |->
             IF grades[k] \in DOMAIN result1 /\ result1[grades[k]].kind = "blend"
             THEN result1[grades[k]].volumes
             ELSE [d \in Comps |-> 0]], c, Len(grades))

\* C1.  When the combined solve is not Optimal, every grade whose isolated
\* solve is Optimal has its blend reported (total volume, cost, revenue,
\* profit, per-component volume) and every grade whose isolated solve is not
\* Optimal has a diagnosis; no grade is left without its section.
C1_FallbackReportsEveryGrade ==
    (pc = "done" /\ overall_status # "Optimal") =>
        \A i \in GradeIdx :
            /\ grades[i] \in DOMAIN grade_results
            /\ grades[i] \in DOMAIN result1
            /\ IF grade_results[grades[i]].status = "Optimal"
               THEN /\ result1[grades[i]].kind = "blend"
                    /\ result1[grades[i]].volumes = grade_results[grades[i]].blend
                    /\ result1[grades[i]].total_volume = Total(grade_results[grades[i]].blend)
                    /\ result1[grades[i]].total_cost = Cost(grade_results[grades[i]].blend)
                    /\ result1[grades[i]].total_revenue
                           = gasoline_price[i] * Total(grade_results[grades[i]].blend)
                    /\ result1[grades[i]].profit
                           = Profit(gasoline_price[i], grade_results[grades[i]].blend)
                    /\ grades[i] \notin DOMAIN infeasibility_report
               ELSE /\ result1[grades[i]].kind = "diagnosis"
                    /\ grades[i] \in DOMAIN infeasibility_report

\* A finished fallback run with a grade that solved alone after a grade that
\* did not, and a grade that did not after one that did.
C1_Witness ==
    /\ pc = "done"
    /\ overall_status # "Optimal"
    /\ \E i, j, k \in GradeIdx :
           /\ i < j /\ j < k
           /\ grade_results[grades[i]].status # "Optimal"
           /\ grade_results[grades[j]].status = "Optimal"
           /\ grade_results[grades[k]].status # "Optimal"
           /\ result1[grades[j]].kind = "blend"

\* C2.  The combined model is solved first; an isolated solve happens only
\* when the combined status is not Optimal; a grade is diagnosed only when
\* the combined status is not Optimal and its own isolated solve, made
\* before, was not Optimal; an Optimal combined solve is the only call.
C2_SolveOrder ==
    /\ (pc \notin {"request", "rejected", "start", "build", "error", "idle"})
           => (calls # <<>> /\ calls[1] = <<"combined">>)
    /\ (calls # <<>>) => calls[1] = <<"combined">>
    /\ \A k \in 2..Len(calls) :
           /\ calls[k][1] \in {"single", "diagnose"}
           /\ overall_status # "Optimal"
           /\ calls[k][1] = "diagnose" =>
                  /\ \E h \in 2..(k - 1) : calls[h] = <<"single", calls[k][2]>>
                  /\ grade_results[calls[k][2]].status # "Optimal"
    /\ (overall_status = "Optimal") => calls = << <<"combined">> >>

\* A finished fallback run in which one grade was solved alone and not
\* diagnosed and another was solved alone and diagnosed.
C2_Witness ==
    /\ pc = "done"
    /\ overall_status # "Optimal"
    /\ \E g, h \in GradeNames :
           /\ \E k \in 1..Len(calls) : calls[k] = <<"diagnose", g>>
           /\ \E k \in 1..Len(calls) : calls[k] = <<"single", h>>
           /\ \A k \in 1..Len(calls) : calls[k] # <<"diagnose", h>>

\* C3, as stated.  In every finished run, for each component the sum over the
\* grades with a reported blend of its volume, and the component summary's
\* 'Used' total, are within the availability - the fallback included.
C3_UsageWithinAvailabilityAlways ==
    (pc = "done") =>
        \A c \in Comps :
            /\ ReportedUse(c) <= component_availability[c]
            /\ component_summary[c] <= component_availability[c]

\* C3, amended.  When the combined solve is Optimal the sum over grades is
\* within the availability; in the fallback each reported grade's own volume
\* of the component is, and 'Used' is the sum of the reported volumes.
C3_UsageWithinAvailability ==
    (pc = "done") =>
        \A c \in Comps :
            /\ component_summary[c] = ReportedUse(c)
            /\ (overall_status = "Optimal") => ReportedUse(c) <= component_availability[c]
            /\ \A g \in DOMAIN result1 :
                   result1[g].kind = "blend" =>
                       result1[g].volumes[c] <= component_availability[c]

\* A finished run whose combined solve was Optimal, two grades sharing a
\* component up to its availability.
C3_Witness ==
    /\ pc = "done"
    /\ overall_status = "Optimal"
    /\ \E c \in Comps :
           /\ ReportedUse(c) = component_availability[c]
           /\ \E g, h \in DOMAIN result1 :
                  /\ g # h
                  /\ result1[g].kind = "blend" /\ result1[g].volumes[c] > 0
                  /\ result1[h].kind = "blend" /\ result1[h].volumes[c] > 0

\* The test model of grade i with exactly one bound left out: the yardstick
\* of "omitting that bound alone".
OmitOneModel(i, key) ==
    [price |-> gasoline_price[i], vmin |-> barrel_min(i), vmax |-> barrel_max(i),
     avail |-> component_availability, mincomp |-> component_min_comp,
     pmin |-> {k \in create_test_model(i, <<>>).pmin : ~(key[2] = "min" /\ k[1] = key[1])},
     pmax |-> {k \in create_test_model(i, <<>>).pmax : ~(key[2] = "max" /\ k[1] = key[1])}]

\* The active bounds of grade i whose omission alone makes its model feasible.
OverTight(i) ==
    {k \in SeqSet(ActiveConstraints(i)) : Status(OmitOneModel(i, k)) = "Optimal"}

RelaxedOptimal(i, key, amount) ==
    Status(create_test_model(i, << <<key[1], key[2], amount>> >>)) = "Optimal"

\* C4.  For a diagnosed grade in which exactly one active bound is over-tight,
\* the diagnosis marks exactly that bound critical - not the opposite bound of
\* the same property - and returns a relaxation of it under which the test
\* model solves Optimal.
C4_MarksExactlyTheOverTightBound ==
    (pc = "done") =>
        \A i \in GradeIdx :
            (grades[i] \in DOMAIN infeasibility_report /\ Cardinality(OverTight(i)) = 1) =>
                /\ infeasibility_report[grades[i]].outcome = "analysed"
                /\ SeqSet(infeasibility_report[grades[i]].critical) = OverTight(i)
                /\ \E p \in SeqSet(infeasibility_report[grades[i]].solution_paths) :
                       /\ p.constraint \in OverTight(i)
                       /\ RelaxedOptimal(i, p.constraint, p.relax)

\* The form's request with Super Premium's RON minimum set to 150.
Ron150Request ==
    /\ grades_data = [i \in GradeIdx |-> [min |-> IF i = 1 THEN 1 ELSE 0, max |-> MaxVol + 1]]
    /\ components_data = [c \in Comps |-> [availability |-> MaxVol, min_comp |-> 0,
                 properties |-> display_properties[c]]]
    /\ original_specs_data = SpecsFor(<<"default", "default", "ron150">>)

\* C5.  On the default request with Super Premium's RON minimum at 150, the
\* diagnosis of Super Premium names the RON minimum as the sole critical
\* constraint, found by single-constraint screening, and proposes a relaxation
\* of it (a threshold below 150) under which the grade's model solves Optimal.
C5_Ron150SoleCritical ==
    (pc = "done" /\ Ron150Request) =>
        /\ grades[3] \in DOMAIN infeasibility_report
        /\ infeasibility_report[grades[3]].outcome = "analysed"
        /\ infeasibility_report[grades[3]].stage = "single"
        /\ infeasibility_report[grades[3]].critical = << <<"RON", "min">> >>
        /\ \E p \in SeqSet(infeasibility_report[grades[3]].solution_paths) :
               /\ p.constraint = <<"RON", "min">>
               /\ p.relax > 0
               /\ RelaxedOptimal(3, p.constraint, p.relax)

\* The grid scan's outcome r accepts bound a at amount ra and bound b at rb.
Accepts(r, ra, rb) == Len(r) = 3 /\ r[1] = ra /\ r[2] = rb

\* C6.  The diagnosis does not depend on the iteration order of the
\* de-duplicated critical set: every accepted combination carries the amounts
\* the grid scan accepts with the other bound of the pair in the outer loop,
\* so a run under any other order returns the same combinations.
C6_CombinationsIndependentOfOrder ==
    (pc = "done") =>
        \A i \in GradeIdx :
            (grades[i] \in DOMAIN infeasibility_report) =>
                \A combo \in SeqSet(infeasibility_report[grades[i]].combination_solutions) :
                    Accepts(FirstCombo(i, combo.constraints[2], combo.constraints[1], 1),
                            combo.relaxations[2], combo.relaxations[1])

\* The bound of grade g that an active-list entry names.
BoundOf(key, g) ==
    IF key[2] = "min" THEN BoundsGet(spec_bounds, key[1], g)[1]
    ELSE BoundsGet(spec_bounds, key[1], g)[2]

IsSentinel(key, g) ==
    \/ key[2] = "min" /\ BoundOf(key, g) = 0
    \/ key[2] = "max" /\ BoundOf(key, g) = Inf

\* C7.  A bound at a sentinel value (min = 0, max = +infinity) is never in
\* the active-constraint list, and so is never probed, marked critical or
\* relaxed: in the running diagnosis and in every written report.
C7_SentinelsNeverActive ==
    /\ \A k \in SeqSet(active_constraints) : ~IsSentinel(k, grades[gi])
    /\ SeqSet(critical_constraints) \subseteq SeqSet(active_constraints)
    /\ \A p \in SeqSet(solution_paths) : p.constraint \in SeqSet(active_constraints)
    /\ \A c \in SeqSet(combination_solutions) :
           SeqSet(c.constraints) \subseteq SeqSet(active_constraints)
    /\ \A g \in DOMAIN infeasibility_report :
           /\ \A k \in SeqSet(infeasibility_report[g].active) : ~IsSentinel(k, g)
           /\ SeqSet(infeasibility_report[g].critical)
                  \subseteq SeqSet(infeasibility_report[g].active)
           /\ \A p \in SeqSet(infeasibility_report[g].solution_paths) :
                  ~IsSentinel(p.constraint, g)
           /\ \A c \in SeqSet(infeasibility_report[g].combination_solutions) :
                  \A k \in SeqSet(c.constraints) : ~IsSentinel(k, g)

\* A written diagnosis of a grade whose RON and ROI minimums are 0 and whose
\* RON and ROI maximums are infinite, with bounds found critical and relaxed.
C7_Witness ==
    /\ grades[3] \in DOMAIN infeasibility_report
    /\ BoundsGet(spec_bounds, "RON", grades[3]) = <<0, Inf>>
    /\ BoundsGet(spec_bounds, "ROI", grades[3]) = <<0, Inf>>
    /\ infeasibility_report[grades[3]].critical # <<>>
    /\ infeasibility_report[grades[3]].solution_paths # <<>>

\* C8.  convert_specs_to_internal copies a RON/MON/RVP minimum of exactly 0
\* and a maximum of +infinity into the derived ROI/MOI/RVI bound, transforms
\* every other bound, and keeps the rows it was given; a copied sentinel is
\* no constraint of a model.
C8_SentinelsPassThrough ==
    (t_pc = "converted") =>
        /\ DOMAIN t_conv = DOMAIN t_specs \cup {InternalName(t_prop)}
        /\ \A p \in DOMAIN t_specs : t_conv[p] = t_specs[p]
        /\ \A g \in DOMAIN t_specs[t_prop] :
               /\ t_specs[t_prop][g].min = 0 =>
                      /\ t_conv[InternalName(t_prop)][g].min = 0
                      /\ ~IsActiveMin(t_conv[InternalName(t_prop)][g].min)
               /\ t_specs[t_prop][g].max = Inf =>
                      /\ t_conv[InternalName(t_prop)][g].max = Inf
                      /\ ~IsActiveMax(t_conv[InternalName(t_prop)][g].max)
               /\ t_specs[t_prop][g].min # 0 =>
                      t_conv[InternalName(t_prop)][g].min = forward(t_prop, t_specs[t_prop][g].min)
               /\ t_specs[t_prop][g].max # Inf =>
                      t_conv[InternalName(t_prop)][g].max = forward(t_prop, t_specs[t_prop][g].max)

\* A converted RON row with minimum 0 and a finite maximum: the minimum is
\* copied, the maximum transformed.
C8_Witness ==
    /\ t_pc = "converted"
    /\ t_prop = "RON"
    /\ t_specs["RON"][grades[1]] = [min |-> 0, max |-> Scale]
    /\ t_conv["ROI"][grades[1]] = [min |-> 0, max |-> Scale + LinearOffset]

\* Tolerance of a comparison of two transformed values: 0.01.
TransformTolerance == Scale \div 100

Within(a, b, tol) == a - b <= tol /\ b - a <= tol

\* C9.  The reverse transform of the forward transform of x is x, within
\* tolerance, for every display value x other than the branch boundary 85.
C9_RoundTrip ==
    (t_pc = "done" /\ t_x # BranchDisplay) => Within(t_back, t_x, TransformTolerance)

\* C10.  calculate_roi and calculate_moi are strictly increasing, also across
\* the branch point, and their value at display 85 is 96.5.
C10_IncreasingAcrossBranch ==
    (t_pc \in {"reverse", "done"} /\ t_prop \in {"RON", "MON"}) =>
        /\ t_x < t_y => t_fx < t_fy
        /\ t_x = BranchDisplay => Within(t_fx, BranchInternal, TransformTolerance)

\* C11.  When GLPK is chosen and launching or running it fails, the combined
\* model is solved by CBC, no solver failure ends the request, the request
\* produces what a request that chose CBC produces, and the 'Solver Used'
\* label 'CBC (Fallback)' is the only difference.
C11_FallbackOnlyChangesLabel ==
    /\ pc # "error"
    /\ (solver_used = "CBC (Fallback)") =>
           /\ solver_choice = "GLPK"
           /\ calls[1] = <<"combined">>
           /\ overall_status \in {"Optimal", "Infeasible"}
    /\ (pc = "done" /\ solver_used = "CBC (Fallback)") =>
           /\ \A g \in GradeNames : g \in DOMAIN result1
           /\ range_report = "unavailable"

\* C12.  A request with a non-numeric field - of a grade, of a component, a
\* component property value or a spec bound - is rejected before any model is
\* constructed or solved; no such field is replaced by a default and optimised.
C12_NonNumericRejected ==
    (form_text # None) =>
        /\ pc \in {"request", "rejected"}
        /\ DOMAIN property_value = {}
        /\ calls = <<>>

\* C13.  A component's minimum required usage constrains the sum of its usage
\* over all grades and never one grade's usage on its own, in the combined, the
\* isolated and the diagnosis models: whether a grade solves alone, and whether
\* it is diagnosed, does not depend on a minimum usage demanded of that grade.
C13_MinUsageNeverPerGrade ==
    \A i \in GradeIdx :
        (overall_status # "Optimal" /\ grades[i] \in DOMAIN grade_results) =>
            /\ (grade_results[grades[i]].status = "Optimal")
                   <=> (Feasible(CombinedGradeRows(i)) # {})
            /\ (grades[i] \in DOMAIN infeasibility_report)
                   => (Feasible(CombinedGradeRows(i)) = {})

\* C14.  The screening probe for an active bound (p, d) is the base
\* single-grade model without that one bound - the opposite bound of p is
\* still enforced - and (p, d) is marked critical exactly when the probe
\* solves Optimal: during the screening the bounds marked so far, and in a
\* written report the screening's critical set, are the bounds whose omission
\* alone makes the model feasible.
C14_ScreeningOmitsOneBound ==
    /\ (pc = "screen") =>
           SeqSet(critical_constraints)
               = {active_constraints[k] : k \in
                     {h \in 1..(constraint_idx - 1) :
                         Status(OmitOneModel(gi, active_constraints[h])) = "Optimal"}}
    /\ \A i \in GradeIdx :
           (grades[i] \in DOMAIN infeasibility_report
                /\ infeasibility_report[grades[i]].active # <<>>) =>
               IF infeasibility_report[grades[i]].stage = "single"
               THEN SeqSet(infeasibility_report[grades[i]].critical) = OverTight(i)
               ELSE OverTight(i) = {}

\* The base model of grade i with exactly two bounds left out.
OmitTwoModel(i, k1, k2) ==
    [price |-> gasoline_price[i], vmin |-> barrel_min(i), vmax |-> barrel_max(i),
     avail |-> component_availability, mincomp |-> component_min_comp,
     pmin |-> {k \in create_test_model(i, <<>>).pmin :
                  /\ ~(k1[2] = "min" /\ k[1] = k1[1])
                  /\ ~(k2[2] = "min" /\ k[1] = k2[1])},
     pmax |-> {k \in create_test_model(i, <<>>).pmax :
                  /\ ~(k1[2] = "max" /\ k[1] = k1[1])
                  /\ ~(k2[2] = "max" /\ k[1] = k2[1])}]

\* Index pair p comes before q in the scan i < j.
PairBefore(p, q) == p[1] < q[1] \/ (p[1] = q[1] /\ p[2] < q[2])

\* Pair <<a, b>> of the list active is the first, in scan order, whose
\* omission makes grade i's model feasible.
FirstFeasiblePair(i, active, a, b) ==
    /\ a < b
    /\ Status(OmitTwoModel(i, active[a], active[b])) = "Optimal"
    /\ \A c, d \in 1..Len(active) :
           (c < d /\ PairBefore(<<c, d>>, <<a, b>>)) =>
               Status(OmitTwoModel(i, active[c], active[d])) # "Optimal"

\* C15.  The pairwise scan runs only if the screening marked no bound
\* critical; it visits the pairs i < j of the active list in order, each probe
\* omitting exactly the two bounds and keeping every other constraint, and
\* stops at the first pair whose probe is Optimal: those two bounds are the
\* critical set.
C15_PairwiseScan ==
    /\ (pc = "pairwise") =>
           /\ critical_constraints = <<>>
           /\ \A k \in 1..Len(active_constraints) :
                  Status(ScreeningModel(gi, active_constraints[k])) # "Optimal"
           /\ pair_idx[1] < pair_idx[2]
           /\ pair_idx[2] <= Len(active_constraints)
           /\ \A a, b \in 1..Len(active_constraints) :
                  (a < b /\ PairBefore(<<a, b>>, pair_idx)) =>
                      Status(OmitTwoModel(gi, active_constraints[a], active_constraints[b]))
                          # "Optimal"
    /\ (pc = "done") =>
           \A i \in GradeIdx :
               (grades[i] \in DOMAIN infeasibility_report
                    /\ infeasibility_report[grades[i]].stage = "pair") =>
                   LET rep == infeasibility_report[grades[i]]
                   IN  /\ \A k \in 1..Len(rep.active) :
                              Status(ScreeningModel(i, rep.active[k])) # "Optimal"
                       /\ Len(rep.critical) = 2
                       /\ \E a, b \in 1..Len(rep.active) :
                              /\ FirstFeasiblePair(i, rep.active, a, b)
                              /\ SeqSet(rep.critical) = {rep.active[a], rep.active[b]}

\* A written diagnosis whose critical pair is not the first pair of the scan:
\* the RON and ROI maximums of a grade with a RON window, found after the
\* pairs that hold the RON minimum.
C15_Witness ==
    /\ pc = "done"
    /\ \E i \in GradeIdx :
           /\ grades[i] \in DOMAIN infeasibility_report
           /\ infeasibility_report[grades[i]].stage = "pair"
           /\ SeqSet(infeasibility_report[grades[i]].critical)
                  = {<<"RON", "max">>, <<"ROI", "max">>}
           /\ infeasibility_report[grades[i]].active[1] = <<"RON", "min">>
           /\ ~FirstFeasiblePair(i, infeasibility_report[grades[i]].active, 1, 2)

\* Some single-bound probe of the screening, or some pair omission, makes
\* grade i's model feasible.
SomeOmissionFeasible(i, active) ==
    \/ \E k \in 1..Len(active) : Status(ScreeningModel(i, active[k])) = "Optimal"
    \/ \E a, b \in 1..Len(active) :
           a < b /\ Status(OmitTwoModel(i, active[a], active[b])) = "Optimal"

\* C16.  If no single omission and no pairwise omission restores feasibility
\* the diagnosis returns the 'requires significant specification changes'
\* outcome as a normal value - the grade's section is written and the run
\* goes on - after the base solve, the n screening probes and the n(n-1)/2
\* pair probes, with no binary-search and no combination solve; the later
\* stages run only with a non-empty critical set.
C16_InconclusiveEndsEarly ==
    /\ (pc \in {"dedup", "search", "path", "combo", "summary"}) =>
           critical_constraints # <<>>
    /\ (pc = "dedup") => SomeOmissionFeasible(gi, active_constraints)
    /\ \A i \in GradeIdx :
           (pc = "done" /\ grades[i] \in DOMAIN infeasibility_report
                /\ infeasibility_report[grades[i]].outcome # "actually_feasible") =>
               LET rep == infeasibility_report[grades[i]]
                   n == Len(ActiveConstraints(i))
               IN  IF SomeOmissionFeasible(i, ActiveConstraints(i))
                   THEN rep.outcome = "analysed"
                   ELSE /\ rep.outcome = "requires_significant_changes"
                        /\ rep.critical = <<>>
                        /\ rep.solution_paths = <<>>
                        /\ rep.combination_solutions = <<>>
                        /\ rep.solves = 1 + n + ((n * (n - 1)) \div 2)
                        /\ result1[grades[i]].kind = "diagnosis"
                        /\ pc # "error"

\* A finished run with a grade whose diagnosis scanned every pair of at least
\* three active bounds and ended inconclusive, and whose next grade was
\* reported after it.
C16_Witness ==
    /\ pc = "done"
    /\ \E i \in 1..(Len(grades) - 1) :
           /\ grades[i] \in DOMAIN infeasibility_report
           /\ infeasibility_report[grades[i]].outcome = "requires_significant_changes"
           /\ Len(infeasibility_report[grades[i]].active) >= 3
           /\ infeasibility_report[grades[i]].solves > 1 + Len(infeasibility_report[grades[i]].active)
           /\ grades[i + 1] \in DOMAIN result1

\* C17.  Each binary search makes at most 25 solves; for a critical bound, if
\* some amount of its seeded range [lo, hi] - hi included - makes the relaxed
\* model feasible (feasibility being monotone in the amount, that is: if hi
\* does), a solution is reported for it, its amount makes the relaxed model
\* Optimal and is less than 0.0001 above the smallest feasible amount of the
\* range; if none does, no solution is reported for that bound.
C17_BinarySearchFindsMinimum ==
    /\ iteration <= MaxIterations
    /\ (pc = "done") =>
           \A i \in GradeIdx :
               (grades[i] \in DOMAIN infeasibility_report) =>
                   LET rep == infeasibility_report[grades[i]]
                   IN  \A k \in SeqSet(rep.critical) :
                           IF RelaxedOptimal(i, k, SearchRange(k[1])[2])
                           THEN \E p \in SeqSet(rep.solution_paths) :
                                    /\ p.constraint = k
                                    /\ RelaxedOptimal(i, k, p.relax)
                                    /\ \/ p.relax - Tolerance < SearchRange(k[1])[1]
                                       \/ ~RelaxedOptimal(i, k, p.relax - Tolerance)
                           ELSE \A p \in SeqSet(rep.solution_paths) : p.constraint # k

\* The rows of a set of property rows that name property p, and the others.
RowsOf(rows, p) == {r \in rows : r[1] = p}
RowsNotOf(rows, p) == {r \in rows : r[1] # p}

\* Model m differs from model base in bound k only, which had the values b
\* and was relaxed by amount.
DiffersInOneBound(base, m, b, k, amount, newmin) ==
    /\ m.price = base.price
    /\ m.vmin = base.vmin /\ m.vmax = base.vmax
    /\ m.avail = base.avail
    /\ m.mincomp = base.mincomp
    /\ RowsNotOf(m.pmin, k[1]) = RowsNotOf(base.pmin, k[1])
    /\ RowsNotOf(m.pmax, k[1]) = RowsNotOf(base.pmax, k[1])
    /\ IF k[2] = "min"
       THEN /\ RowsOf(m.pmax, k[1]) = RowsOf(base.pmax, k[1])
            /\ RowsOf(m.pmin, k[1]) = IF newmin > 0 THEN {<<k[1], newmin>>} ELSE {}
       ELSE /\ RowsOf(m.pmin, k[1]) = RowsOf(base.pmin, k[1])
            /\ RowsOf(m.pmax, k[1])
                   = IF b[2] = Inf THEN {} ELSE {<<k[1], b[2] + amount>>}

\* The test model of grade i relaxed by (k[1], k[2], amount) differs from the
\* base test model in that one bound only.
OnlyThatBoundDiffers(i, k, amount) ==
    DiffersInOneBound(create_test_model(i, <<>>),
                      create_test_model(i, << <<k[1], k[2], amount>> >>),
                      BoundsGet(spec_bounds, k[1], grades[i]), k, amount,
                      IF BoundsGet(spec_bounds, k[1], grades[i])[1] - amount > 0
                      THEN BoundsGet(spec_bounds, k[1], grades[i])[1] - amount ELSE 0)

\* C18.  A test model built with relaxation (p, d, delta) differs from the
\* base single-grade model only in bound d of property p: a finite maximum
\* becomes max + delta, an infinite one stays infinite, a minimum becomes
\* max(0, min - delta); the objective, the volume window, the availability
\* and minimum-usage rows and every other property bound are the base
\* model's.  Checked for the amount each binary-search step solves, for the
\* amount a search returns, and for that amount on every other bound.
C18_RelaxationChangesOneBound ==
    /\ (pc = "search") =>
           \A p \in Props, d \in {"min", "max"} :
               OnlyThatBoundDiffers(gi, <<p, d>>, (min_relax + max_relax) \div 2)
    /\ (pc = "path" /\ best_relax # 0) =>
           OnlyThatBoundDiffers(gi, critical_constraints[constraint_idx], best_relax)

\* A binary-search step that solves a relaxation of a minimum larger than the
\* minimum itself, of a grade that also has an infinite maximum, after a step
\* that solved a smaller one.
C18_Witness ==
    /\ pc = "search"
    /\ iteration > 0
    /\ critical_constraints[constraint_idx][2] = "min"
    /\ BoundsGet(spec_bounds, critical_constraints[constraint_idx][1], grades[gi])[1]
           < (min_relax + max_relax) \div 2
    /\ BoundsGet(spec_bounds, "RON", grades[gi])[2] = Inf

\* The cells <<x, y>> of the 7 x 7 grid of relaxation levels at which grade
\* i's model, relaxed in bound c1 by level x and in c2 by level y, is feasible.
FeasibleCells(i, c1, c2) ==
    {cell \in (1..Len(relax_levels)) \X (1..Len(relax_levels)) :
        Status(create_test_model(i, << <<c1[1], c1[2], relax_levels[cell[1]]>>,
                                       <<c2[1], c2[2], relax_levels[cell[2]]>> >>)) = "Optimal"}

\* The first cell of a set in the scan order: first bound's level outer.
FirstCell(cells) == CHOOSE c \in cells : \A d \in cells : c = d \/ PairBefore(c, d)

\* The entries of a list of accepted combinations that name the pair pr.
CombosOf(combos, pr) == {n \in 1..Len(combos) : combos[n].constraints = pr}

ComboTotal(c) == c.relaxations[1] + c.relaxations[2]

\* What the combination stage produces for grade i, critical list crit: one
\* combination for each pair a < b with a feasible cell, carrying the first
\* such cell's levels, and nothing else; ranked by total relaxation.
CombinationsAsScanned(i, crit, combos, cells) ==
    /\ (Len(crit) <= 1) => combos = <<>>
    /\ \A n \in 1..Len(combos) :
           \E a, b \in 1..Len(crit) : a < b /\ combos[n].constraints = <<crit[a], crit[b]>>
    /\ \A a, b \in 1..Len(crit) :
           (a < b) =>
               IF cells[<<a, b>>] = {}
               THEN CombosOf(combos, <<crit[a], crit[b]>>) = {}
               ELSE /\ Cardinality(CombosOf(combos, <<crit[a], crit[b]>>)) = 1
                    /\ \A n \in CombosOf(combos, <<crit[a], crit[b]>>) :
                           combos[n].relaxations
                               = <<relax_levels[FirstCell(cells[<<a, b>>])[1]],
                                   relax_levels[FirstCell(cells[<<a, b>>])[2]]>>
    /\ \A n \in 1..(Len(combos) - 1) : ComboTotal(combos[n]) <= ComboTotal(combos[n + 1])

\* C19.  The combination stage runs only with more than one critical bound;
\* for each pair of critical bounds it scans the grid {0.05, 0.1, 0.2, 0.5, 1,
\* 2, 3} with the first bound's amount in the outer loop, accepts the first
\* cell whose doubly relaxed model is Optimal and no other for that pair; the
\* accepted combinations are ranked by total relaxation ascending and at most
\* the first three are reported.
C19_CombinationStage ==
    /\ (pc = "combo") => Len(critical_constraints) > 1
    /\ (pc = "done") =>
           \A i \in GradeIdx :
               (grades[i] \in DOMAIN infeasibility_report) =>
                   LET rep == infeasibility_report[grades[i]]
                   IN  /\ CombinationsAsScanned(i, rep.critical, rep.combination_solutions,
                               [pr \in (1..Len(rep.critical)) \X (1..Len(rep.critical)) |->
                                   IF pr[1] < pr[2]
                                   THEN FeasibleCells(i, rep.critical[pr[1]], rep.critical[pr[2]])
                                   ELSE {}])
                       /\ Len(rep.shown_combinations) <= 3
                       /\ rep.shown_combinations
                              = SubSeq(rep.combination_solutions, 1, Len(rep.shown_combinations))
                       /\ (Len(rep.shown_combinations) < 3) =>
                              rep.shown_combinations = rep.combination_solutions

\* A written diagnosis with more than three accepted combinations, of which
\* three are reported, one of them accepted in a cell that is not the grid's
\* first.
C19_Witness ==
    /\ pc = "done"
    /\ \E g \in DOMAIN infeasibility_report :
           /\ Len(infeasibility_report[g].combination_solutions) > 3
           /\ Len(infeasibility_report[g].shown_combinations) = 3
           /\ infeasibility_report[g].shown_combinations[1].relaxations
                  # <<relax_levels[1], relax_levels[1]>>
           /\ ComboTotal(infeasibility_report[g].combination_solutions[3])
                  < ComboTotal(infeasibility_report[g].combination_solutions[4])

\* The summary rep written from the single-bound solutions found and the
\* combinations accepted.
SummaryRanks(found, accepted, rep) ==
    /\ Len(rep.solution_paths) = Len(found)
    /\ SeqSet(rep.solution_paths) = SeqSet(found)
    /\ \A n \in 1..(Len(found) - 1) :
           rep.solution_paths[n].relax <= rep.solution_paths[n + 1].relax
    /\ Len(rep.recommended) = (IF found = <<>> THEN 0 ELSE 1)
    /\ \A n \in 1..Len(rep.recommended) :
           /\ rep.recommended[n] \in SeqSet(found)
           /\ \A q \in SeqSet(found) : rep.recommended[n].relax <= q.relax
           /\ rep.recommended[n] = rep.solution_paths[1]
    /\ Len(rep.alternatives)
           = (IF Len(found) >= 3 THEN 2 ELSE IF Len(found) = 2 THEN 1 ELSE 0)
    /\ \A n \in 1..Len(rep.alternatives) : rep.alternatives[n] = rep.solution_paths[n + 1]
    /\ Len(rep.best_combination) = (IF accepted = <<>> THEN 0 ELSE 1)
    /\ \A n \in 1..Len(rep.best_combination) :
           /\ rep.best_combination[n] \in SeqSet(accepted)
           /\ \A q \in SeqSet(accepted) :
                  ComboTotal(rep.best_combination[n]) <= ComboTotal(q)

\* C20.  When the summary is written, the single-bound solutions found are
\* listed by relaxation amount ascending; the recommended solution is one of
\* them with the smallest relaxation amount, the alternatives are the next two
\* of that order, and the best combination is an accepted combination with
\* the smallest total relaxation.
C20_SummaryRanking ==
    [][(pc = "summary") =>
           SummaryRanks(solution_paths, combination_solutions,
                        infeasibility_report'[grades[gi]])]_vars

\* Position of the bound key in the list crit.
PositionIn(crit, key) == CHOOSE n \in 1..Len(crit) : crit[n] = key

\* A written summary with more than three single-bound solutions, one of them
\* found after a solution that needs a strictly larger relaxation, and with
\* several combinations.
C20_Witness ==
    \E g \in DOMAIN infeasibility_report :
        LET rep == infeasibility_report[g]
        IN  /\ Len(rep.solution_paths) > 3
            /\ Len(rep.alternatives) = 2
            /\ \E a, b \in 1..Len(rep.solution_paths) :
                   /\ rep.solution_paths[a].relax < rep.solution_paths[b].relax
                   /\ PositionIn(rep.critical, rep.solution_paths[b].constraint)
                          < PositionIn(rep.critical, rep.solution_paths[a].constraint)
            /\ Len(rep.combination_solutions) > 1
            /\ Len(rep.best_combination) = 1

\* The positions of analyze_grade_infeasibility after its first solve.
DiagnosisPcs == {"screen", "pairwise", "dedup", "search", "path", "combo", "summary"}

\* C21.  The diagnosis of a grade solves the base single-grade model first:
\* it goes on to screening only if that solve is not Optimal, and the grade's
\* outcome is 'actually feasible' exactly when it is Optimal, after that one
\* solve and with no bound listed, marked, relaxed or combined.
C21_BaseSolvedFirst ==
    /\ (pc \in DiagnosisPcs) =>
           /\ Status(create_test_model(gi, <<>>)) # "Optimal"
           /\ n_solves >= 1
    /\ (pc \notin DiagnosisPcs) => n_solves = 0
    /\ \A i \in GradeIdx :
           (grades[i] \in DOMAIN infeasibility_report) =>
               LET rep == infeasibility_report[grades[i]]
               IN  /\ (rep.outcome = "actually_feasible")
                          <=> (Status(create_test_model(i, <<>>)) = "Optimal")
                   /\ (rep.outcome = "actually_feasible") =>
                          /\ rep.solves = 1
                          /\ rep.active = <<>> /\ rep.critical = <<>>
                          /\ rep.solution_paths = <<>> /\ rep.combination_solutions = <<>>

\* A grade whose isolated solve was Infeasible and whose diagnosis found the
\* base model Optimal.
C21_Witness ==
    \E g \in DOMAIN infeasibility_report :
        /\ infeasibility_report[g].outcome = "actually_feasible"
        /\ grade_results[g].status = "Infeasible"

\* The range the binary search for a bound on prop is to start from, by
\* property class: density, octane index, volatility and composition, other.
RangeByClass(prop) ==
    IF prop = "SPG" THEN <<Scale \div 1000, Scale \div 10>>
    ELSE IF prop \in {"ROI", "MOI"} THEN <<Scale \div 100, 10 * Scale>>
    ELSE IF prop \in {"E70", "E10", "E15", "ARO", "OLEFIN", "RVI"}
    THEN <<Scale \div 10, 20 * Scale>>
    ELSE <<Scale \div 1000, 50 * Scale>>

\* C22.  The binary search for a critical bound starts from the range of the
\* bound's property class: [0.001, 0.1] for SPG, [0.01, 10] for ROI and MOI
\* only, [0.1, 20] for E70, E10, E15, ARO, OLEFIN and RVI, [0.001, 50] for
\* every other property.
C22_RangeByPropertyClass ==
    (pc = "search" /\ iteration = 0) =>
        <<min_relax, max_relax>> = RangeByClass(critical_constraints[constraint_idx][1])

\* The relaxation of a recorded single-bound solution or combination.
RelaxationOf(path) == << <<path.constraint[1], path.constraint[2], path.relax>> >>

CombinationOf(combo) ==
    << <<combo.constraints[1][1], combo.constraints[1][2], combo.relaxations[1]>>,
       <<combo.constraints[2][1], combo.constraints[2][2], combo.relaxations[2]>> >>

\* C23.  Diagnostic probes leave the data they are built from as it was:
\* from the first model on, spec_bounds and property_value are what
\* run_optimization built from the request, whatever probes have run, so that
\* every recorded solution, rebuilt from those inputs with its own relaxation
\* alone, is Optimal again.
C23_ProbesDoNotInterfere ==
    (pc \notin {"request", "rejected", "start", "idle"}) =>
        /\ spec_bounds = MakeSpecBounds(convert_specs_to_internal(original_specs_data))
        /\ property_value
               = MakePropertyValue(convert_component_properties(ParsedProperties(form_text)))
        /\ \A n \in 1..Len(solution_paths) :
               Status(create_test_model(gi, RelaxationOf(solution_paths[n]))) = "Optimal"
        /\ \A n \in 1..Len(combination_solutions) :
               Status(create_test_model(gi, CombinationOf(combination_solutions[n]))) = "Optimal"
        /\ \A i \in GradeIdx :
               (grades[i] \in DOMAIN infeasibility_report) =>
                   LET rep == infeasibility_report[grades[i]]
                   IN  /\ \A n \in 1..Len(rep.solution_paths) :
                              Status(create_test_model(i, RelaxationOf(rep.solution_paths[n])))
                                  = "Optimal"
                       /\ \A n \in 1..Len(rep.combination_solutions) :
                              Status(create_test_model(i,
                                         CombinationOf(rep.combination_solutions[n])))
                                  = "Optimal"

\* A finished diagnosis that ran relaxation and combination probes and
\* recorded solutions of both kinds.
C23_Witness ==
    /\ pc = "done"
    /\ \E g \in DOMAIN infeasibility_report :
           /\ Len(infeasibility_report[g].solution_paths) > 1
           /\ Len(infeasibility_report[g].combination_solutions) > 0

\* C24.  For every grade the diagnosis base model (a property minimum only
\* when min > 0) is feasible exactly when the orchestrator's isolated model
\* (a property minimum for every finite min, 0 included) is, whatever the
\* component property values; so no diagnosed grade has the outcome
\* 'actually feasible'.
C24_BaseModelAgreesWithIsolated ==
    (pc \notin {"request", "rejected", "start", "idle"}) =>
        /\ \A i \in GradeIdx :
               (Status(create_test_model(i, <<>>)) = "Optimal")
                   <=> (Status(SingleGradeModel(i)) = "Optimal")
        /\ \A g \in DOMAIN infeasibility_report :
               infeasibility_report[g].outcome # "actually_feasible"

\* The amounts at which a single relaxation of bound k is probed below: the
\* ends of its search range and the grid's levels.
ProbedAmounts(k) ==
    {SearchRange(k[1])[1], SearchRange(k[1])[2]} \cup SeqSet(relax_levels)

\* C25.  When the critical set comes from the pairwise stage, no relaxation of
\* one of its bounds alone makes the model feasible - a relaxed model admits
\* no blend that the model without the bound does not - so no binary search
\* finds an amount, the summary holds no single-bound solution, and every fix
\* it proposes is a combination.
C25_PairStageHasNoSinglePath ==
    /\ (critical_stage = "pair") =>
           /\ best_relax = 0
           /\ solution_paths = <<>>
           /\ (pc = "dedup") =>
                  \A n \in 1..Len(critical_constraints) :
                      LET k == critical_constraints[n]
                      IN  /\ Status(ScreeningModel(gi, k)) # "Optimal"
                          /\ \A a \in ProbedAmounts(k) :
                                 Feasible(create_test_model(gi, << <<k[1], k[2], a>> >>))
                                     \subseteq Feasible(ScreeningModel(gi, k))
    /\ \A g \in DOMAIN infeasibility_report :
           (infeasibility_report[g].stage = "pair") =>
               /\ infeasibility_report[g].solution_paths = <<>>
               /\ infeasibility_report[g].recommended = <<>>
               /\ infeasibility_report[g].alternatives = <<>>

\* A written diagnosis whose critical pair came from the pairwise stage and
\* whose only proposal is a combination.
C25_Witness ==
    \E g \in DOMAIN infeasibility_report :
        /\ infeasibility_report[g].stage = "pair"
        /\ Len(infeasibility_report[g].critical) = 2
        /\ infeasibility_report[g].solves > 1 + Len(infeasibility_report[g].active)
        /\ Len(infeasibility_report[g].best_combination) = 1

\* Grade i's single-grade model with every property bound removed: the
\* volume window, the availabilities and the minimum usages alone.
NoBoundsModel(i) ==
    [price |-> gasoline_price[i], vmin |-> barrel_min(i), vmax |-> barrel_max(i),
     avail |-> component_availability, mincomp |-> component_min_comp,
     pmin |-> {}, pmax |-> {}]

\* C26.  A grade that is infeasible with every property bound removed has no
\* bound marked critical, in the screening or in the pairwise stage, and its
\* diagnosis ends with the outcome 'requires significant specification
\* changes'.
C26_VolumeInfeasibleIsInconclusive ==
    /\ (pc \in DiagnosisPcs /\ Status(NoBoundsModel(gi)) # "Optimal") =>
           /\ pc \in {"screen", "pairwise"}
           /\ critical_constraints = <<>>
    /\ \A i \in GradeIdx :
           (grades[i] \in DOMAIN infeasibility_report
                /\ Status(NoBoundsModel(i)) # "Optimal") =>
               /\ infeasibility_report[grades[i]].outcome = "requires_significant_changes"
               /\ infeasibility_report[grades[i]].critical = <<>>
               /\ infeasibility_report[grades[i]].solution_paths = <<>>
               /\ infeasibility_report[grades[i]].combination_solutions = <<>>

\* A grade whose minimum volume exceeds its maximum, diagnosed through the
\* screening and the whole pairwise scan.
C26_Witness ==
    \E i \in GradeIdx :
        /\ grades[i] \in DOMAIN infeasibility_report
        /\ barrel_min(i) > barrel_max(i)
        /\ Status(NoBoundsModel(i)) # "Optimal"
        /\ Len(infeasibility_report[grades[i]].active) > 1
        /\ infeasibility_report[grades[i]].solves
               > 1 + Len(infeasibility_report[grades[i]].active)

\* The display properties of the model that have an internal counterpart.
DualProps == {"RON", "RVP"} \cap Props

\* The display bound of kind bt ("min" or "max") of property d for grade g.
DisplayBound(d, g, bt) ==
    IF bt = "min" THEN original_specs_data[d][g].min ELSE original_specs_data[d][g].max

\* The rows of kind bt of a single-grade model.
RowsOfKind(m, bt) == IF bt = "min" THEN m.pmin ELSE m.pmax

\* Grade i's display bound (d, bt) appears twice: as two entries of the
\* active list, and as two rows - the display value on d, the transformed
\* value on d's internal counterpart - of the combined model's rows for the
\* grade, of the isolated model and of the test model.
EnforcedTwice(i, d, bt) ==
    LET v == DisplayBound(d, grades[i], bt)
        both == {<<d, v>>, <<InternalName(d), forward(d, v)>>}
    IN  /\ {<<d, bt>>, <<InternalName(d), bt>>} \subseteq SeqSet(ActiveConstraints(i))
        /\ both \subseteq RowsOfKind(CombinedGradeRows(i), bt)
        /\ both \subseteq RowsOfKind(SingleGradeModel(i), bt)
        /\ both \subseteq RowsOfKind(create_test_model(i, <<>>), bt)

RECURSIVE Pow2(_)
Pow2(n) == IF n = 0 THEN 1 ELSE 2 * Pow2(n - 1)

\* C28.  Throughout a binary search lower <= upper, and the bracket's width
\* is the seeded width halved once per iteration (to within the last digit of
\* the amounts); best_relax is unset or equal to the upper end, which
\* otherwise is the seeded one, and is an amount at which the relaxed model is
\* Optimal; the lower end is the seeded one or an amount at which the relaxed
\* model is not Optimal.
C28_BracketInvariant ==
    (pc \in {"search", "path"}) =>
        LET key == critical_constraints[constraint_idx]
            seeded == SearchRange(key[1])
            width == max_relax - min_relax
        IN  /\ min_relax <= max_relax
            /\ width * Pow2(iteration) <= (seeded[2] - seeded[1]) + Pow2(iteration)
            /\ width * Pow2(iteration) >= (seeded[2] - seeded[1]) - Pow2(iteration)
            /\ IF best_relax = 0
               THEN max_relax = seeded[2]
               ELSE /\ best_relax = max_relax
                    /\ RelaxedOptimal(gi, key, best_relax)
            /\ min_relax = seeded[1] \/ ~RelaxedOptimal(gi, key, min_relax)

\* A search several iterations on, in which both ends of the bracket have
\* moved.
C28_Witness ==
    /\ pc = "search"
    /\ iteration > 3
    /\ best_relax # 0
    /\ min_relax # SearchRange(critical_constraints[constraint_idx][1])[1]

\* C29.  The returned infeasibility report closes with the 'All grades were
\* successfully optimized' line exactly when no grade was diagnosed, and then
\* the combined solve was Optimal.
C29_NoIssuesOnlyWhenOptimal ==
    (pc = "done") =>
        /\ (InfeasibilityReportReturned.closing # None)
               <=> (DOMAIN InfeasibilityReportReturned.diagnoses = {})
        /\ (InfeasibilityReportReturned.closing # None) => overall_status = "Optimal"

\* First half of C29: the closing line is written exactly when no grade was
\* diagnosed.
ClosingLineIffNoDiagnosis ==
    (pc = "done") =>
        ((InfeasibilityReportReturned.closing # None)
            <=> (DOMAIN InfeasibilityReportReturned.diagnoses = {}))

\* Both cases happen: a finished run with the closing line, and one without.
ClosingLineWithInfeasibleStatus ==
    /\ pc = "done"
    /\ InfeasibilityReportReturned.closing # None
    /\ overall_status # "Optimal"

\* 1 + n + n(n-1)/2 + 26k + 49 k(k-1)/2
SolveBound(n, k) == 1 + n + (n * (n - 1)) \div 2 + 26 * k + 49 * ((k * (k - 1)) \div 2)

Distinct(seq) == Cardinality({seq[n] : n \in 1..Len(seq)})

\* The counts of C30: the solves of a diagnosis, running or reported, stay
\* within the bound for its active and critical bounds, and a binary search
\* leaves its loop on the tolerance with fewer iterations than the cap.
SolvesBounded ==
    /\ (pc \in DiagnosisPcs) =>
           n_solves <= SolveBound(Len(active_constraints), Distinct(critical_constraints))
    /\ \A g \in DOMAIN infeasibility_report :
           infeasibility_report[g].solves
               <= SolveBound(Len(infeasibility_report[g].active),
                             Len(infeasibility_report[g].critical))
    /\ (pc \in {"search", "path"}) => iteration < MaxIterations
    /\ (pc = "path") => (iteration >= 1 /\ max_relax - min_relax < Tolerance)

\* C30.  A diagnosis issues at most 1 + n + n(n-1)/2 + 26k + 49 k(k-1)/2
\* solves for n active and k critical bounds, every binary search leaves its
\* loop on the tolerance before the 25th iteration, and a request that has
\* come to its first solve reaches its final report whatever the outcomes of
\* the solves are.
C30_DiagnosisTerminates ==
    /\ []SolvesBounded
    /\ (pc \in ({"build", "single", "display", "components"} \cup DiagnosisPcs))
           ~> (pc = "done")

\* A finished request with a diagnosis that went through screening, binary
\* searches for at least two critical bounds and the combination stage.
C30_Witness ==
    /\ pc = "done"
    /\ \E g \in DOMAIN infeasibility_report :
           /\ infeasibility_report[g].outcome = "analysed"
           /\ Len(infeasibility_report[g].critical) >= 2
           /\ infeasibility_report[g].solves
                  > 1 + Len(infeasibility_report[g].active) + 2 * 10

====
